---------------------------- MODULE Spec2Model ----------------------------
(***************************************************************************)
(* Quiz REST backend: quizzes, questions with options, learner/admin       *)
(* views and answer scoring.  The store is the relational database behind  *)
(* Prisma.  Nine specifications share the state:                           *)
(*   Spec           the API (quizzes, questions, views, submissions) from  *)
(*                  the empty store, one action per request                *)
(*   SpecScore      submitQuizAnswers over a store of four quizzes, one    *)
(*                  action per step of the service function                *)
(*   SpecPct        the aggregate of a finished scoring loop, for every    *)
(*                  count of correct answers and of questions up to        *)
(*                  MaxTotal                                               *)
(*   SpecConc       a writing call and reading calls in flight at once,    *)
(*                  one action per store call                              *)
(*   SpecMalformed  submitQuizAnswers over question rows the gates reject  *)
(*   SpecErr        the error handler over the errors of the store         *)
(*   SpecTwo        submissions in flight beside each other                *)
(*   SpecUnexpected the error handler over errors that are not the store's *)
(*   SpecPipe       one request through the middleware of its route        *)
(***************************************************************************)
EXTENDS Integers, Sequences, FiniteSets, TLC

(***************************************************************************)
(* Bounds of the model.                                                    *)
(***************************************************************************)
MaxQuizIds == 2
MaxQuestionIds == 2
MaxOptionIds == 3
MaxOptions == 2
MaxAnswers == 2
MaxSelected == 3
MaxTotal == 40

(***************************************************************************)
(* Program constants.                                                      *)
(***************************************************************************)
TitleMaxLen == 200
QuestionTextMaxLen == 1000
OptionTextMaxLen == 500
TextAnswerMaxLen == 300
OK == 200
BAD_REQUEST == 400
NOT_FOUND == 404
CONFLICT == 409
INTERNAL_SERVER_ERROR == 500

(***************************************************************************)
(* Strings are sequences of one-character strings.  An optional field of a *)
(* request body is <<>> when absent (undefined) and <<v>> when present.    *)
(***************************************************************************)
Absent == <<>>
Some(v) == <<v>>
IsPresent(o) == Len(o) = 1
Get(o) == o[1]

WhiteSpace == {" ", "\t", "\n"}

RECURSIVE trimStart(_)
trimStart(s) ==
    IF s # <<>> /\ Head(s) \in WhiteSpace THEN trimStart(Tail(s)) ELSE s

RECURSIVE trimEnd(_)
trimEnd(s) ==
    IF s # <<>> /\ s[Len(s)] \in WhiteSpace
    THEN trimEnd(SubSeq(s, 1, Len(s) - 1))
    ELSE s

\* a trim that strips the start of the string only
trimStartOnly(s) == trimStart(s)

\* String.prototype.trim
trim(s) == trimEnd(trimStart(s))

lowerChar(c) ==
    CASE c = "A" -> "a"
      [] c = "B" -> "b"
      [] OTHER -> c

\* String.prototype.toLowerCase
toLowerCase(s) == [i \in 1..Len(s) |-> lowerChar(s[i])]

(***************************************************************************)
(* Identifiers.  A well-formed uuid is a positive number; BadId is a       *)
(* string that is not a uuid.                                              *)
(***************************************************************************)
BadId == 0
QuizIds == 1..MaxQuizIds
QuestionIds == 1..MaxQuestionIds
OptionIds == 1..MaxOptionIds
isUuid(id) == id # BadId

Types == {"SINGLE_CHOICE", "MULTIPLE_CHOICE", "TEXT"}

(***************************************************************************)
(* Request payloads the clients of the management API send.                *)
(***************************************************************************)
Titles == {<<>>, <<"t">>}
OptionText == <<"A", "b">>

SeqsUpTo(S, n) == UNION {[1..k -> S] : k \in 0..n}

\* options of a request body: the text with either flag, and one option
\* whose text is empty
OptionInputs ==
    [text : {OptionText}, isCorrect : BOOLEAN] \cup {[text |-> <<>>, isCorrect |-> TRUE]}

\* bodies with a question text, and one body whose question text is empty
QuestionBodies ==
    [text : {<<"q">>}, type : Types, options : SeqsUpTo(OptionInputs, MaxOptions)]
    \cup {[text |-> <<>>, type |-> "TEXT",
           options |-> <<[text |-> OptionText, isCorrect |-> TRUE]>>]}

(***************************************************************************)
(* State.                                                                  *)
(*   quizzes    the Quiz table, in creation order: <<[id, title], ...>>    *)
(*   questions  the Question table with each question's Option rows in     *)
(*              insertion order: id -> [quizId, text, type, options]       *)
(*   res        the response of the request being answered, NoResponse     *)
(*              between requests                                           *)
(*   sub        the frame of the running submitQuizAnswers call            *)
(*   calls      the service calls in flight at once, each paused at one of *)
(*              its awaits: slot -> frame (SpecConc; empty elsewhere)      *)
(***************************************************************************)
VARIABLES quizzes, questions, res, sub, calls

vars == <<quizzes, questions, res, sub, calls>>

NoResponse ==
    [op |-> "none", id |-> BadId, body |-> <<>>, status |-> 0,
     envelope |-> "none", message |-> "", data |-> <<>>]

\* no service call is paused at an await
NoCalls == <<>>

NoSubmit ==
    [pc |-> "idle", quizId |-> BadId, questions |-> <<>>, answer |-> <<>>,
     results |-> <<>>, correctAnswers |-> 0]

(***************************************************************************)
(* Response envelope.                                                      *)
(***************************************************************************)
sendSuccess(op, id, body, data, message) ==
    [op |-> op, id |-> id, body |-> body, status |-> OK,
     envelope |-> "success", message |-> message, data |-> data]

sendError(op, id, body, message, statusCode) ==
    [op |-> op, id |-> id, body |-> body, status |-> statusCode,
     envelope |-> "error", message |-> message, data |-> <<>>]

\* an AppError that always carries 400
AppErrorBadRequest(message, statusCode) ==
    [name |-> "AppError", code |-> "", message |-> message, statusCode |-> BAD_REQUEST]

\* an error value: its class name, its Prisma error code ("" when it has
\* none), its message and its statusCode (0 when it carries none)
AppError(message, statusCode) ==
    [name |-> "AppError", code |-> "", message |-> message, statusCode |-> statusCode]

\* an error thrown by the Prisma client or by the runtime: no statusCode
thrown(name, code, message) ==
    [name |-> name, code |-> code, message |-> message, statusCode |-> 0]

NodeEnvs == {"development", "production", "test"}

\* a default branch that sends the error's message whatever the mode
errorHandlerExposing(NODE_ENV, op, id, body, err) ==
    IF err.statusCode # 0 /\ err.message # ""
    THEN sendError(op, id, body, err.message, err.statusCode)
    ELSE IF err.name = "ValidationError"
    THEN sendError(op, id, body, err.message, BAD_REQUEST)
    ELSE sendError(op, id, body,
                   IF err.message # "" THEN err.message ELSE "Something went wrong",
                   INTERNAL_SERVER_ERROR)

\* the global error handler, under a given env.NODE_ENV
errorHandlerIn(NODE_ENV, op, id, body, err) ==
    IF err.name = "PrismaClientKnownRequestError"
    THEN CASE err.code = "P2002" ->
                sendError(op, id, body, "A record with this data already exists", CONFLICT)
           [] err.code = "P2025" ->
                sendError(op, id, body, "Record not found", NOT_FOUND)
           [] err.code = "P2003" ->
                sendError(op, id, body, "Foreign key constraint failed", BAD_REQUEST)
           [] OTHER ->
                sendError(op, id, body, "Database error occurred", INTERNAL_SERVER_ERROR)
    ELSE IF err.name = "PrismaClientUnknownRequestError"
    THEN sendError(op, id, body, "Unknown database error occurred", INTERNAL_SERVER_ERROR)
    ELSE IF err.name = "PrismaClientValidationError"
    THEN sendError(op, id, body, "Invalid data provided", BAD_REQUEST)
    ELSE IF err.statusCode # 0 /\ err.message # ""
    THEN sendError(op, id, body, err.message, err.statusCode)
    ELSE IF err.name = "ValidationError"
    THEN sendError(op, id, body, err.message, BAD_REQUEST)
    ELSE sendError(op, id, body,
                   IF NODE_ENV = "production" THEN "Internal server error"
                   ELSE IF err.message # "" THEN err.message
                   ELSE "Something went wrong",
                   INTERNAL_SERVER_ERROR)

\* the handler as the process runs it when NODE_ENV is not set
\* (Config.NODE_ENV defaults to 'development')
errorHandler(op, id, body, err) == errorHandlerIn("development", op, id, body, err)

(***************************************************************************)
(* Validation gates (zod schemas behind validateParams / validateBody).    *)
(***************************************************************************)
\* a title schema without the min(1)
createQuizSchemaAnyTitle(body) == Len(body.title) <= TitleMaxLen

createQuizSchema(body) ==
    Len(body.title) >= 1 /\ Len(body.title) <= TitleMaxLen

quizIdSchema(id) == isUuid(id)
quizIdParamSchema(id) == isUuid(id)
questionIdSchema(id) == isUuid(id)

correctOptions(options) == SelectSeq(options, LAMBDA o : o.isCorrect)

\* the object schema of createQuestionSchema, before .refine
createQuestionShape(data) ==
    /\ Len(data.text) >= 1 /\ Len(data.text) <= QuestionTextMaxLen
    /\ data.type \in Types
    /\ \A i \in 1..Len(data.options) :
          Len(data.options[i].text) >= 1 /\ Len(data.options[i].text) <= OptionTextMaxLen
    /\ Len(data.options) >= 1

\* a refinement that lets a SINGLE_CHOICE question have several correct
\* options
createQuestionRefineAtLeastOne(data) ==
    IF data.type = "TEXT"
    THEN Len(data.options) = 1 /\ Len(data.options[1].text) <= TextAnswerMaxLen
    ELSE Len(correctOptions(data.options)) >= 1

\* the .refine callback of createQuestionSchema
createQuestionRefine(data) ==
    IF data.type = "TEXT"
    THEN Len(data.options) = 1 /\ Len(data.options[1].text) <= TextAnswerMaxLen
    ELSE IF data.type = "SINGLE_CHOICE"
    THEN Len(correctOptions(data.options)) = 1
    ELSE IF data.type = "MULTIPLE_CHOICE"
    THEN Len(correctOptions(data.options)) >= 1
    ELSE TRUE

createQuestionSchema(data) == createQuestionShape(data) /\ createQuestionRefine(data)

\* one element of submitAnswersSchema's answers array, before .refine
answerShape(answer) ==
    /\ isUuid(answer.questionId)
    /\ IsPresent(answer.selectedOptionIds) =>
          \A i \in 1..Len(Get(answer.selectedOptionIds)) :
              isUuid(Get(answer.selectedOptionIds)[i])
    /\ IsPresent(answer.textAnswer) => Len(Get(answer.textAnswer)) <= TextAnswerMaxLen

\* a refinement that asks for selected options or a text, and allows both
answerRefineEither(answer) ==
    LET hasSel == IsPresent(answer.selectedOptionIds)
        hasText == IsPresent(answer.textAnswer) /\ Get(answer.textAnswer) # <<>>
    IN IF hasSel /\ Len(Get(answer.selectedOptionIds)) > 0 THEN TRUE
       ELSE IF hasText THEN Len(trim(Get(answer.textAnswer))) > 0
       ELSE FALSE

\* the .refine callback of submitAnswersSchema, for one answer: selected
\* options without text, or text without selected options
answerRefine(answer) ==
    LET hasSel == IsPresent(answer.selectedOptionIds)
        sel == Get(answer.selectedOptionIds)
        hasText == IsPresent(answer.textAnswer) /\ Get(answer.textAnswer) # <<>>
        text == Get(answer.textAnswer)
    IN \/ hasSel /\ Len(sel) > 0 /\ ~hasText
       \/ hasText /\ Len(trim(text)) > 0 /\ (~hasSel \/ Len(sel) = 0)

submitAnswersSchema(data) ==
    /\ Len(data.answers) >= 1
    /\ \A i \in 1..Len(data.answers) : answerShape(data.answers[i])
    /\ \A i \in 1..Len(data.answers) : answerRefine(data.answers[i])
(***************************************************************************)
(* Store calls (Prisma).                                                   *)
(***************************************************************************)
quizIdsOf(qz) == {qz[i].id : i \in 1..Len(qz)}
quizExists(id) == id \in quizIdsOf(quizzes)
findUniqueQuiz(id) == CHOOSE q \in {quizzes[i] : i \in 1..Len(quizzes)} : q.id = id

optionIdsOf(qs) == UNION {{qs[q].options[i].id : i \in 1..Len(qs[q].options)} : q \in DOMAIN qs}

\* ascending order of a finite set of identifiers (orderBy: { id: 'asc' })
RECURSIVE sortAsc(_)
sortAsc(S) ==
    IF S = {} THEN <<>>
    ELSE LET m == CHOOSE x \in S : \A y \in S : x <= y
         IN <<m>> \o sortAsc(S \ {m})

questionIdsOfQuiz(qs, quizId) == {q \in DOMAIN qs : qs[q].quizId = quizId}

\* the rows a nested options.create inserts: fresh option identifiers in
\* the order of the request's options
newOptions(inputs, ids) ==
    [i \in 1..Len(inputs) |->
        [id |-> ids[i], text |-> inputs[i].text, isCorrect |-> inputs[i].isCorrect]]

\* identifiers the database may generate for k new options: any k distinct
\* identifiers no stored option has, in ascending order (option identifiers
\* are only ever compared for equality)
freshOptionIds(qs, k) ==
    LET free == sortAsc(OptionIds \ optionIdsOf(qs))
    IN IF Len(free) >= k THEN {SubSeq(free, 1, k)} ELSE {}

questionCount(qs, quizId) == Cardinality(questionIdsOfQuiz(qs, quizId))

\* cascade delete of a quiz's questions (and with them their options): the
\* referential action of the Question.quiz relation in the Prisma schema
cascadeQuiz(qs, quizId) == [q \in DOMAIN qs \ questionIdsOfQuiz(qs, quizId) |-> qs[q]]

removeQuiz(qz, id) == SelectSeq(qz, LAMBDA q : q.id # id)

\* prisma.quiz.create
quizCreate(qz, id, data) == Append(qz, [id |-> id, title |-> data.title])

\* prisma.quiz.update
quizUpdate(qz, id, data) ==
    [i \in 1..Len(qz) |-> IF qz[i].id = id THEN [qz[i] EXCEPT !.title = data.title] ELSE qz[i]]

\* prisma.question.create with the nested options.create
questionCreate(qs, q, ids, quizId, data) ==
    [x \in DOMAIN qs \cup {q} |->
        IF x = q
        THEN [quizId |-> quizId, text |-> data.text, type |-> data.type,
              options |-> newOptions(data.options, ids)]
        ELSE qs[x]]

\* tx.option.deleteMany({ where: { questionId } })
optionDeleteMany(qs, questionId) ==
    [q \in DOMAIN qs |-> IF q = questionId THEN [qs[q] EXCEPT !.options = <<>>] ELSE qs[q]]

\* tx.question.update with the nested options.create: the row keeps its
\* identifier and quiz, and the new option rows join those it still has
questionUpdateRow(qs, questionId, ids, data) ==
    [qs EXCEPT ![questionId] =
        [quizId |-> qs[questionId].quizId, text |-> data.text, type |-> data.type,
         options |-> qs[questionId].options \o newOptions(data.options, ids)]]

\* an update that skips the deleteMany
questionUpdateKeepingOptions(qs, questionId, ids, data) ==
    questionUpdateRow(qs, questionId, ids, data)

\* the transaction of updateQuestion: option.deleteMany, then
\* question.update with the nested options.create
questionUpdate(qs, questionId, ids, data) ==
    questionUpdateRow(optionDeleteMany(qs, questionId), questionId, ids, data)

\* a delete that takes the other questions of the quiz with it
questionDeleteWithSiblings(qs, questionId) ==
    [q \in DOMAIN qs \ questionIdsOfQuiz(qs, qs[questionId].quizId) |-> qs[q]]

\* prisma.question.delete
questionDelete(qs, questionId) == [q \in DOMAIN qs \ {questionId} |-> qs[q]]


(***************************************************************************)
(* Views of the stored questions.                                          *)
(***************************************************************************)
\* an option projection that keeps the flag
learnerOptionWithFlag(o) == [id |-> o.id, text |-> o.text, isCorrect |-> o.isCorrect]

\* select: { id, text, options: { select: { id, text } } } of getQuizQuestions
learnerOption(o) == [id |-> o.id, text |-> o.text]

learnerQuestion(qs, q) ==
    [id |-> q, text |-> qs[q].text, type |-> qs[q].type,
     options |-> [i \in 1..Len(qs[q].options) |-> learnerOption(qs[q].options[i])]]

\* include: { options: true }
fullOption(q, o) == [id |-> o.id, text |-> o.text, isCorrect |-> o.isCorrect, questionId |-> q]

fullQuestion(qs, q) ==
    [id |-> q, text |-> qs[q].text, type |-> qs[q].type, quizId |-> qs[q].quizId,
     options |-> [i \in 1..Len(qs[q].options) |-> fullOption(q, qs[q].options[i])]]

\* prisma.question.findMany({ where: { quizId }, select: ..., orderBy: { id: 'asc' } })
findManyLearner(qs, quizId) ==
    LET ids == sortAsc(questionIdsOfQuiz(qs, quizId))
    IN [i \in 1..Len(ids) |-> learnerQuestion(qs, ids[i])]

\* a findMany in descending order of id
findManyFullDescending(qs, quizId) ==
    LET ids == sortAsc(questionIdsOfQuiz(qs, quizId))
    IN [i \in 1..Len(ids) |-> fullQuestion(qs, ids[Len(ids) + 1 - i])]

\* prisma.question.findMany({ where: { quizId }, include: { options: true }, ... })
findManyFull(qs, quizId) ==
    LET ids == sortAsc(questionIdsOfQuiz(qs, quizId))
    IN [i \in 1..Len(ids) |-> fullQuestion(qs, ids[i])]

quizRow(q) == [id |-> q.id, title |-> q.title]
quizWithCount(qs, q) == [id |-> q.id, title |-> q.title, questions |-> questionCount(qs, q.id)]

Idle == res.op = "none" /\ sub.pc = "idle"

(***************************************************************************)
(* Quiz management: route gates, controller and service of each request.   *)
(***************************************************************************)
CreateQuiz(body) ==
    /\ Idle
    /\ IF ~createQuizSchema(body)
       THEN /\ res' = sendError("createQuiz", BadId, body, "Validation failed", BAD_REQUEST)
            /\ UNCHANGED <<quizzes, questions, sub>>
       ELSE \E id \in QuizIds \ quizIdsOf(quizzes) :
            /\ quizzes' = quizCreate(quizzes, id, body)
            /\ res' = sendSuccess("createQuiz", id, body,
                                  [id |-> id, title |-> body.title], "Quiz created successfully")
            /\ UNCHANGED <<questions, sub>>
    /\ UNCHANGED calls

GetQuizzes ==
    /\ Idle
    /\ res' = sendSuccess("getQuizzes", BadId, <<>>,
                          [i \in 1..Len(quizzes) |->
                              quizWithCount(questions, quizzes[Len(quizzes) + 1 - i])],
                          "Quizzes fetched successfully")
    /\ UNCHANGED <<quizzes, questions, sub>>
    /\ UNCHANGED calls

GetQuizById(id) ==
    /\ Idle
    /\ res' = IF ~quizIdSchema(id)
              THEN sendError("getQuizById", id, <<>>, "Parameter validation failed", BAD_REQUEST)
              ELSE IF ~quizExists(id)
              THEN errorHandler("getQuizById", id, <<>>, AppError("Quiz not found", NOT_FOUND))
              ELSE sendSuccess("getQuizById", id, <<>>,
                               quizWithCount(questions, findUniqueQuiz(id)),
                               "Quiz fetched successfully")
    /\ UNCHANGED <<quizzes, questions, sub>>
    /\ UNCHANGED calls

UpdateQuiz(id, body) ==
    /\ Idle
    /\ IF ~quizIdSchema(id)
       THEN /\ res' = sendError("updateQuiz", id, body, "Parameter validation failed", BAD_REQUEST)
            /\ UNCHANGED quizzes
       ELSE IF ~createQuizSchema(body)
       THEN /\ res' = sendError("updateQuiz", id, body, "Validation failed", BAD_REQUEST)
            /\ UNCHANGED quizzes
       ELSE IF ~quizExists(id)
       THEN /\ res' = errorHandler("updateQuiz", id, body, AppError("Quiz not found", NOT_FOUND))
            /\ UNCHANGED quizzes
       ELSE /\ quizzes' = quizUpdate(quizzes, id, body)
            /\ res' = sendSuccess("updateQuiz", id, body,
                                  [id |-> id, title |-> body.title], "Quiz updated successfully")
    /\ UNCHANGED <<questions, sub>>
    /\ UNCHANGED calls

DeleteQuiz(id) ==
    /\ Idle
    /\ IF ~quizIdSchema(id)
       THEN /\ res' = sendError("deleteQuiz", id, <<>>, "Parameter validation failed", BAD_REQUEST)
            /\ UNCHANGED <<quizzes, questions>>
       ELSE IF ~quizExists(id)
       THEN /\ res' = errorHandler("deleteQuiz", id, <<>>, AppError("Quiz not found", NOT_FOUND))
            /\ UNCHANGED <<quizzes, questions>>
       ELSE /\ quizzes' = removeQuiz(quizzes, id)
            /\ questions' = cascadeQuiz(questions, id)
            /\ res' = sendSuccess("deleteQuiz", id, <<>>,
                                  [message |-> "Quiz deleted successfully"],
                                  "Quiz deleted successfully")
    /\ UNCHANGED sub
    /\ UNCHANGED calls

(***************************************************************************)
(* Question management.                                                    *)
(***************************************************************************)
CreateQuestion(quizId, body) ==
    /\ Idle
    /\ IF ~quizIdParamSchema(quizId)
       THEN /\ res' = sendError("createQuestion", quizId, body,
                                "Parameter validation failed", BAD_REQUEST)
            /\ UNCHANGED questions
       ELSE IF ~createQuestionSchema(body)
       THEN /\ res' = sendError("createQuestion", quizId, body, "Validation failed", BAD_REQUEST)
            /\ UNCHANGED questions
       ELSE IF ~quizExists(quizId)
       THEN /\ res' = errorHandler("createQuestion", quizId, body,
                                   AppError("Quiz not found", NOT_FOUND))
            /\ UNCHANGED questions
       ELSE \E q \in QuestionIds \ DOMAIN questions :
            \E ids \in freshOptionIds(questions, Len(body.options)) :
            LET qs == questionCreate(questions, q, ids, quizId, body)
            IN /\ questions' = qs
               /\ res' = sendSuccess("createQuestion", quizId, body, fullQuestion(qs, q),
                                     "Question created successfully")
    /\ UNCHANGED <<quizzes, sub>>
    /\ UNCHANGED calls

\* a learner view that clears the flags on the stored options and saves them
GetQuizQuestionsStripping(quizId) ==
    /\ Idle
    /\ res' = IF ~quizIdParamSchema(quizId)
              THEN sendError("getQuizQuestions", quizId, <<>>,
                             "Parameter validation failed", BAD_REQUEST)
              ELSE IF ~quizExists(quizId)
              THEN errorHandler("getQuizQuestions", quizId, <<>>,
                                AppError("Quiz not found", NOT_FOUND))
              ELSE sendSuccess("getQuizQuestions", quizId, <<>>,
                               findManyLearner(questions, quizId),
                               "Quiz questions fetched successfully")
    /\ questions' =
          [q \in DOMAIN questions |->
             IF questions[q].quizId = quizId
             THEN [questions[q] EXCEPT
                     !.options = [i \in 1..Len(questions[q].options) |->
                                    [questions[q].options[i] EXCEPT !.isCorrect = FALSE]]]
             ELSE questions[q]]
    /\ UNCHANGED <<quizzes, sub>>
    /\ UNCHANGED calls

GetQuizQuestions(quizId) ==
    /\ Idle
    /\ res' = IF ~quizIdParamSchema(quizId)
              THEN sendError("getQuizQuestions", quizId, <<>>,
                             "Parameter validation failed", BAD_REQUEST)
              ELSE IF ~quizExists(quizId)
              THEN errorHandler("getQuizQuestions", quizId, <<>>,
                                AppError("Quiz not found", NOT_FOUND))
              ELSE sendSuccess("getQuizQuestions", quizId, <<>>,
                               findManyLearner(questions, quizId),
                               "Quiz questions fetched successfully")
    /\ UNCHANGED <<quizzes, questions, sub>>
    /\ UNCHANGED calls

GetQuizQuestionsWithAnswers(quizId) ==
    /\ Idle
    /\ res' = IF ~quizIdParamSchema(quizId)
              THEN sendError("getQuizQuestionsWithAnswers", quizId, <<>>,
                             "Parameter validation failed", BAD_REQUEST)
              ELSE IF ~quizExists(quizId)
              THEN errorHandler("getQuizQuestionsWithAnswers", quizId, <<>>,
                                AppError("Quiz not found", NOT_FOUND))
              ELSE sendSuccess("getQuizQuestionsWithAnswers", quizId, <<>>,
                               findManyFull(questions, quizId),
                               "Quiz questions with answers fetched successfully")
    /\ UNCHANGED <<quizzes, questions, sub>>
    /\ UNCHANGED calls

GetQuestionById(questionId) ==
    /\ Idle
    /\ res' = IF ~questionIdSchema(questionId)
              THEN sendError("getQuestionById", questionId, <<>>,
                             "Parameter validation failed", BAD_REQUEST)
              ELSE IF questionId \notin DOMAIN questions
              THEN errorHandler("getQuestionById", questionId, <<>>,
                                AppError("Question not found", NOT_FOUND))
              ELSE sendSuccess("getQuestionById", questionId, <<>>,
                               [question |-> fullQuestion(questions, questionId),
                                quiz |-> quizRow(findUniqueQuiz(questions[questionId].quizId))],
                               "Question fetched successfully")
    /\ UNCHANGED <<quizzes, questions, sub>>
    /\ UNCHANGED calls

UpdateQuestion(questionId, body) ==
    /\ Idle
    /\ IF ~questionIdSchema(questionId)
       THEN /\ res' = sendError("updateQuestion", questionId, body,
                                "Parameter validation failed", BAD_REQUEST)
            /\ UNCHANGED questions
       ELSE IF ~createQuestionSchema(body)
       THEN /\ res' = sendError("updateQuestion", questionId, body,
                                "Validation failed", BAD_REQUEST)
            /\ UNCHANGED questions
       ELSE IF questionId \notin DOMAIN questions
       THEN /\ res' = errorHandler("updateQuestion", questionId, body,
                                   AppError("Question not found", NOT_FOUND))
            /\ UNCHANGED questions
       ELSE \E ids \in freshOptionIds(questions, Len(body.options)) :
            LET qs == questionUpdate(questions, questionId, ids, body)
            IN /\ questions' = qs
               /\ res' = sendSuccess("updateQuestion", questionId, body,
                                     fullQuestion(qs, questionId),
                                     "Question updated successfully")
    /\ UNCHANGED <<quizzes, sub>>
    /\ UNCHANGED calls

DeleteQuestion(questionId) ==
    /\ Idle
    /\ IF ~questionIdSchema(questionId)
       THEN /\ res' = sendError("deleteQuestion", questionId, <<>>,
                                "Parameter validation failed", BAD_REQUEST)
            /\ UNCHANGED questions
       ELSE IF questionId \notin DOMAIN questions
       THEN /\ res' = errorHandler("deleteQuestion", questionId, <<>>,
                                   AppError("Question not found", NOT_FOUND))
            /\ UNCHANGED questions
       ELSE /\ questions' = questionDelete(questions, questionId)
            /\ res' = sendSuccess("deleteQuestion", questionId, <<>>,
                                  [message |-> "Question deleted successfully"],
                                  "Question deleted successfully")
    /\ UNCHANGED <<quizzes, sub>>
    /\ UNCHANGED calls

\* res.json(...) has written the response; the next request is taken
Respond ==
    /\ res.op # "none"
    /\ res' = NoResponse
    /\ sub' = NoSubmit
    /\ UNCHANGED <<quizzes, questions>>
    /\ UNCHANGED calls

(***************************************************************************)
(* IEEE-754 binary64 arithmetic, as far as the percentage needs it.  A     *)
(* positive double is [m, e]: its 53 significand bits m = <<1, c1, c2, c3, *)
(* c4>>, the leading bit and four limbs of 13 bits, and its exponent e;    *)
(* the value is (m read as a 53-bit number) * 2^(e - 52).  Zero has no     *)
(* limbs.  Every operation rounds to nearest, ties to even.                *)
(***************************************************************************)
RECURSIVE pow2(_)
pow2(k) == IF k = 0 THEN 1 ELSE 2 * pow2(k - 1)

LimbBits == 13
Limbs == 4
LimbBase == pow2(LimbBits)

Zero == [m |-> <<>>, e |-> 0]

\* the number of binary digits of a natural number
RECURSIVE bitLength(_)
bitLength(x) == IF x = 0 THEN 0 ELSE 1 + bitLength(x \div 2)

\* limbs + carry, the carry out of the top limb added to the leading bit
RECURSIVE addLimbs(_, _)
addLimbs(m, carry) ==
    IF Len(m) = 1 THEN <<m[1] + carry>>
    ELSE LET t == m[Len(m)] + carry
         IN addLimbs(SubSeq(m, 1, Len(m) - 1), t \div LimbBase) \o <<t % LimbBase>>

\* round-to-nearest-even of the significand m with exponent e, given the
\* first dropped bit and whether any later dropped bit is set
roundNearestEven(m, e, guard, sticky) ==
    IF guard = 1 /\ (sticky \/ m[Len(m)] % 2 = 1)
    THEN LET up == addLimbs(m, 1)
         IN IF up[1] = 2
            THEN [m |-> <<1>> \o SubSeq(up, 2, Len(up)), e |-> e + 1]
            ELSE [m |-> up, e |-> e]
    ELSE [m |-> m, e |-> e]

\* cnt quotient limbs of r / den (r < den), and the remainder
RECURSIVE divLimbs(_, _, _)
divLimbs(r, den, cnt) ==
    IF cnt = 0 THEN [limbs |-> <<>>, rem |-> r]
    ELSE LET t == r * LimbBase
             rest == divLimbs(t % den, den, cnt - 1)
         IN [limbs |-> <<t \div den>> \o rest.limbs, rem |-> rest.rem]

\* the least k with x * 2^k >= y
RECURSIVE shiftUp(_, _)
shiftUp(x, y) == IF x >= y THEN 0 ELSE 1 + shiftUp(2 * x, y)

\* the greatest k with y * 2^k <= x (y <= x)
RECURSIVE shiftDown(_, _)
shiftDown(x, y) == IF 2 * y > x THEN 0 ELSE 1 + shiftDown(x, 2 * y)

\* the double nearest to c / n, for naturals c and n >= 1 (below 2^17)
fdiv(c, n) ==
    IF c = 0 THEN Zero
    ELSE LET up == IF c >= n THEN 0 ELSE shiftUp(c, n)
             down == IF c >= n THEN shiftDown(c, n) ELSE 0
             num == c * pow2(up)
             den == n * pow2(down)
             q == divLimbs(num - den, den, Limbs)
             guard == (2 * q.rem) \div den
             sticky == (2 * q.rem) % den # 0
         IN roundNearestEven(<<1>> \o q.limbs, down - up, guard, sticky)

\* limbs * k + carry, the top limb left unreduced
RECURSIVE mulLimbs(_, _, _)
mulLimbs(m, k, carry) ==
    IF Len(m) = 1 THEN <<m[1] * k + carry>>
    ELSE LET t == m[Len(m)] * k + carry
         IN mulLimbs(SubSeq(m, 1, Len(m) - 1), k, t \div LimbBase) \o <<t % LimbBase>>

\* p shifted right by s bits (s <= LimbBits): the bits that leave a limb
\* enter the next one
shiftRight(p, s) ==
    [i \in 1..Len(p) |->
        (IF i = 1 THEN 0 ELSE (p[i - 1] % pow2(s)) * pow2(LimbBits - s))
        + (p[i] \div pow2(s))]

\* the double nearest to x * k, for a double x and a natural 1 <= k < 2^13
fmul(x, k) ==
    IF x.m = <<>> THEN Zero
    ELSE LET p == mulLimbs(x.m, k, 0)
             s == bitLength(p[1]) - 1
             dropped == p[Len(p)] % pow2(s)
             guard == IF s = 0 THEN 0 ELSE dropped \div pow2(s - 1)
             sticky == s > 0 /\ dropped % pow2(s - 1) # 0
         IN roundNearestEven(shiftRight(p, s), x.e + s, guard, sticky)

\* Math.round of a non-negative double below 2^26: the nearest integer, a
\* tie going up
MathRound(x) ==
    IF x.m = <<>> \/ x.e < -1 THEN 0
    ELSE IF x.e = -1 THEN 1
    ELSE LET top == (x.m[1] * LimbBase + x.m[2]) * LimbBase + x.m[3]
         IN (top \div pow2(2 * LimbBits - x.e))
            + ((top \div pow2(2 * LimbBits - 1 - x.e)) % 2)

\* Math.round((correctAnswers / questions.length) * 100)
percentage(correctAnswers, total) == MathRound(fmul(fdiv(correctAnswers, total), 100))

(***************************************************************************)
(* Submissions the clients send.                                           *)
(***************************************************************************)
SubmitQuizIds == {BadId, 1, 2, 3, 4, 5}
AnswerQuestionIds == {BadId, 1, 2, 3, 4, 5, 6}
AnswerOptionIds == {1, 2, 3, 4, 5}
AnswerTexts ==
    {<<>>, <<" ">>, <<"a", " ", "b">>, <<" ", "a", " ", "B", " ">>, <<"A", "b">>, <<"B">>}

Selections ==
    {Absent, Some(<<BadId>>)} \cup {Some(s) : s \in SeqsUpTo(AnswerOptionIds, MaxSelected)}

AnswerInputs ==
    [questionId : AnswerQuestionIds,
     selectedOptionIds : Selections,
     textAnswer : {Absent} \cup {Some(t) : t \in AnswerTexts}]

\* the answers the gate accepts
AcceptedAnswers == {a \in AnswerInputs : answerShape(a) /\ answerRefine(a)}

\* bodies the gate rejects: no answer, or one answer the gate rejects
RejectedBodies ==
    {b \in [answers : SeqsUpTo(AnswerInputs, 1)] : ~submitAnswersSchema(b)}

(***************************************************************************)
(* Scoring: the loop body and the aggregate of submitQuizAnswers.          *)
(***************************************************************************)
\* Array.prototype.find(opt => opt.isCorrect): <<>> when there is none
findCorrect(options) ==
    IF correctOptions(options) = <<>> THEN Absent ELSE Some(Head(correctOptions(options)))

\* new Set(ids)
SetOf(ids) == {ids[i] : i \in 1..Len(ids)}

\* a truthy textAnswer: present and not the empty string
truthyText(answer) == IsPresent(answer.textAnswer) /\ Get(answer.textAnswer) # <<>>

stringAnswer(s) == [kind |-> "string", value |-> s]
listAnswer(l) == [kind |-> "list", value |-> l]

\* the TEXT branch of the loop body
scoreText(question, answer) ==
    LET correctOption == findCorrect(question.options)
    IN IF IsPresent(correctOption) /\ truthyText(answer)
       THEN [isCorrect |-> toLowerCase(trim(Get(answer.textAnswer)))
                             = toLowerCase(trim(Get(correctOption).text)),
             correctAnswer |-> stringAnswer(Get(correctOption).text)]
       ELSE [isCorrect |-> FALSE, correctAnswer |-> stringAnswer(<<>>)]

\* answer.selectedOptionIds || []
selectedIdsOf(answer) ==
    IF IsPresent(answer.selectedOptionIds) THEN Get(answer.selectedOptionIds) ELSE <<>>

correctOptionIdsOf(question) ==
    LET c == correctOptions(question.options) IN [i \in 1..Len(c) |-> c[i].id]

\* a SINGLE_CHOICE rule that only asks for the correct option to be among
\* the selected ones
scoreSingleAmongSelected(question, answer) ==
    LET correctOptionIds == correctOptionIdsOf(question)
        first == findCorrect(question.options)
    IN [isCorrect |-> /\ Len(correctOptionIds) = 1
                      /\ correctOptionIds[1] \in SetOf(selectedIdsOf(answer)),
        correctAnswer |-> stringAnswer(IF IsPresent(first) THEN Get(first).text ELSE <<>>)]

\* a SINGLE_CHOICE rule that compares the selection with the first option
\* flagged correct, however many are flagged
scoreSingleAgainstFirstCorrect(question, answer) ==
    LET selectedIds == selectedIdsOf(answer)
        first == findCorrect(question.options)
    IN [isCorrect |-> /\ Len(selectedIds) = 1
                      /\ IsPresent(first)
                      /\ selectedIds[1] = Get(first).id,
        correctAnswer |-> stringAnswer(IF IsPresent(first) THEN Get(first).text ELSE <<>>)]

\* the SINGLE_CHOICE branch
scoreSingle(question, answer) ==
    LET correctOptionIds == correctOptionIdsOf(question)
        selectedIds == selectedIdsOf(answer)
        first == findCorrect(question.options)
    IN [isCorrect |-> /\ Len(selectedIds) = 1
                      /\ Len(correctOptionIds) = 1
                      /\ selectedIds[1] = correctOptionIds[1],
        correctAnswer |-> stringAnswer(IF IsPresent(first) THEN Get(first).text ELSE <<>>)]

\* a MULTIPLE_CHOICE rule that compares list lengths instead of set sizes
scoreMultipleByLength(question, answer) ==
    LET selectedIds == selectedIdsOf(answer)
        correctSet == SetOf(correctOptionIdsOf(question))
        c == correctOptions(question.options)
    IN [isCorrect |-> /\ Len(selectedIds) = Cardinality(correctSet)
                      /\ \A id \in SetOf(selectedIds) : id \in correctSet,
        correctAnswer |-> listAnswer([i \in 1..Len(c) |-> c[i].text])]

\* a MULTIPLE_CHOICE rule without the size test: no selected option is a
\* wrong one
scoreMultipleNoWrongOne(question, answer) ==
    LET selectedSet == SetOf(selectedIdsOf(answer))
        correctSet == SetOf(correctOptionIdsOf(question))
        c == correctOptions(question.options)
    IN [isCorrect |-> \A id \in selectedSet : id \in correctSet,
        correctAnswer |-> listAnswer([i \in 1..Len(c) |-> c[i].text])]

\* the MULTIPLE_CHOICE branch
scoreMultiple(question, answer) ==
    LET selectedSet == SetOf(selectedIdsOf(answer))
        correctSet == SetOf(correctOptionIdsOf(question))
        c == correctOptions(question.options)
    IN [isCorrect |-> /\ Cardinality(selectedSet) = Cardinality(correctSet)
                      /\ \A id \in selectedSet : id \in correctSet,
        correctAnswer |-> listAnswer([i \in 1..Len(c) |-> c[i].text])]

\* isCorrect and correctAnswer of one answer to its question
scoreAnswer(question, answer) ==
    IF question.type = "TEXT" THEN scoreText(question, answer)
    ELSE IF question.type = "SINGLE_CHOICE" THEN scoreSingle(question, answer)
    ELSE IF question.type = "MULTIPLE_CHOICE" THEN scoreMultiple(question, answer)
    ELSE [isCorrect |-> FALSE, correctAnswer |-> stringAnswer(<<>>)]

\* a lookup that falls back to the first question of the quiz
questionMapGetOrFirst(found, questionId) ==
    LET hit == SelectSeq(found, LAMBDA q : q.id = questionId)
    IN IF hit = <<>> THEN Some(found[1]) ELSE Some(hit[Len(hit)])

\* questionMap.get(answer.questionId): <<>> when the map has no such key
questionMapGet(found, questionId) ==
    LET hit == SelectSeq(found, LAMBDA q : q.id = questionId)
    IN IF hit = <<>> THEN Absent ELSE Some(hit[Len(hit)])

\* a score object whose total counts the answers instead of the questions
scoreOfAnswered(correctAnswers, found, results) ==
    [score |-> correctAnswers,
     total |-> Len(results),
     percentage |-> percentage(correctAnswers, Len(results)),
     results |-> results]

\* the score object the service returns
scoreOf(correctAnswers, found, results) ==
    [score |-> correctAnswers,
     total |-> Len(found),
     percentage |-> percentage(correctAnswers, Len(found)),
     results |-> results]

\* the entry the loop makes for one answer
resultOf(answer, r) ==
    [questionId |-> answer.questionId, isCorrect |-> r.isCorrect,
     correctAnswer |-> r.correctAnswer]

\* a push at the front of the list
unshift(results, entry) == <<entry>> \o results

\* results.push(...)
push(results, entry) == Append(results, entry)

(***************************************************************************)
(* submitQuizAnswers, step by step.  The answers of a body the gate        *)
(* accepts are drawn one at a time as the loop reaches them: the gate      *)
(* accepts a body iff it has at least one answer and accepts each answer.  *)
(***************************************************************************)
\* a body the gate rejects is answered 400 before the controller runs
SubmitRejected ==
    /\ Idle
    /\ \E quizId \in SubmitQuizIds, body \in RejectedBodies :
          /\ quizIdParamSchema(quizId)
          /\ ~submitAnswersSchema(body)
          /\ res' = sendError("submitQuizAnswers", quizId, body,
                              "Validation failed", BAD_REQUEST)
    /\ UNCHANGED <<quizzes, questions, sub>>
    /\ UNCHANGED calls

\* the gates passed: quiz lookup, question lookup, up to the loop
SubmitStart(quizId) ==
    /\ Idle
    /\ IF ~quizIdParamSchema(quizId)
       THEN /\ res' = sendError("submitQuizAnswers", quizId, <<>>,
                                "Parameter validation failed", BAD_REQUEST)
            /\ UNCHANGED sub
       ELSE IF ~quizExists(quizId)
       THEN /\ res' = errorHandler("submitQuizAnswers", quizId, <<>>,
                                   AppError("Quiz not found", NOT_FOUND))
            /\ UNCHANGED sub
       ELSE IF Len(findManyFull(questions, quizId)) = 0
       THEN /\ res' = errorHandler("submitQuizAnswers", quizId, <<>>,
                                   AppError("No questions found for this quiz", BAD_REQUEST))
            /\ UNCHANGED sub
       ELSE /\ sub' = [NoSubmit EXCEPT !.pc = "loop", !.quizId = quizId,
                                       !.questions = findManyFull(questions, quizId)]
            /\ UNCHANGED res
    /\ UNCHANGED <<quizzes, questions>>
    /\ UNCHANGED calls

\* the body of the loop for the next answer of the list: the lookup that
\* may throw, the scoring, the count and the push
SubmitStep ==
    /\ sub.pc = "loop"
    /\ \E answer \in AcceptedAnswers :
          LET question == questionMapGet(sub.questions, answer.questionId)
          IN IF ~IsPresent(question)
             THEN /\ res' = errorHandler("submitQuizAnswers", sub.quizId, <<>>,
                                         AppError("Question not found in this quiz",
                                                  BAD_REQUEST))
                  /\ sub' = [sub EXCEPT !.pc = "thrown", !.answer = Some(answer)]
             ELSE LET r == scoreAnswer(Get(question), answer)
                  IN /\ sub' = [sub EXCEPT
                                  !.pc = "scored",
                                  !.answer = Some(answer),
                                  !.correctAnswers = IF r.isCorrect THEN @ + 1 ELSE @,
                                  !.results = push(@, resultOf(answer, r))]
                     /\ UNCHANGED res
    /\ UNCHANGED <<quizzes, questions>>
    /\ UNCHANGED calls

\* the list has another answer: the loop goes round
SubmitNext ==
    /\ sub.pc = "scored"
    /\ Len(sub.results) < MaxAnswers
    /\ sub' = [sub EXCEPT !.pc = "loop", !.answer = Absent]
    /\ UNCHANGED <<quizzes, questions, res>>
    /\ UNCHANGED calls

\* the list is exhausted: the score object, returned and sent
SubmitFinish ==
    /\ sub.pc = "scored"
    /\ res' = sendSuccess("submitQuizAnswers", sub.quizId, <<>>,
                          scoreOf(sub.correctAnswers, sub.questions, sub.results),
                          "Quiz answers submitted successfully")
    /\ sub' = [sub EXCEPT !.pc = "done"]
    /\ UNCHANGED <<quizzes, questions>>
    /\ UNCHANGED calls

(***************************************************************************)
(* submitQuizAnswers from the fetched questions on, as the one synchronous *)
(* run it is: the emptiness check, the whole loop and the aggregate have   *)
(* no await between them.                                                  *)
(***************************************************************************)
\* a check that lets an empty question list through
noQuestionsNever(found) == FALSE

\* questions.length === 0
noQuestions(found) == Len(found) = 0

\* the for..of loop over the answers; acc is the loop's state and thrown
\* tells that the lookup of an answer's question failed
RECURSIVE scoreLoop(_, _, _)
scoreLoop(found, answers, acc) ==
    IF answers = <<>> THEN acc
    ELSE LET answer == Head(answers)
             question == questionMapGet(found, answer.questionId)
         IN IF ~IsPresent(question)
            THEN [acc EXCEPT !.thrown = TRUE]
            ELSE LET r == scoreAnswer(Get(question), answer)
                 IN scoreLoop(found, Tail(answers),
                              [thrown |-> FALSE,
                               correctAnswers |-> IF r.isCorrect THEN acc.correctAnswers + 1
                                                  ELSE acc.correctAnswers,
                               results |-> push(acc.results, resultOf(answer, r))])

\* a counter that lives outside the call: it starts at the number of calls
\* that have finished and not yet returned
loopStartShared ==
    [thrown |-> FALSE,
     correctAnswers |-> Cardinality({s \in DOMAIN calls : calls[s].pc = "done"}),
     results |-> <<>>]

\* let correctAnswers = 0; const results = []: locals of the call
loopStart == [thrown |-> FALSE, correctAnswers |-> 0, results |-> <<>>]

\* the response of a submission whose quiz exists and whose questions are found
submitOutcome(quizId, body, found) ==
    IF noQuestions(found)
    THEN errorHandler("submitQuizAnswers", quizId, body,
                      AppError("No questions found for this quiz", BAD_REQUEST))
    ELSE LET end == scoreLoop(found, body.answers, loopStart)
         IN IF end.thrown
            THEN errorHandler("submitQuizAnswers", quizId, body,
                              AppError("Question not found in this quiz", BAD_REQUEST))
            ELSE sendSuccess("submitQuizAnswers", quizId, body,
                             scoreOf(end.correctAnswers, found, end.results),
                             "Quiz answers submitted successfully")

(***************************************************************************)
(* submitQuizAnswers as one request: the route gates, the controller and   *)
(* the service to its response.                                            *)
(***************************************************************************)
SubmitQuizAnswers(quizId, body) ==
    /\ Idle
    /\ res' = IF ~quizIdParamSchema(quizId)
              THEN sendError("submitQuizAnswers", quizId, body,
                             "Parameter validation failed", BAD_REQUEST)
              ELSE IF ~submitAnswersSchema(body)
              THEN sendError("submitQuizAnswers", quizId, body,
                             "Validation failed", BAD_REQUEST)
              ELSE IF ~quizExists(quizId)
              THEN errorHandler("submitQuizAnswers", quizId, body,
                                AppError("Quiz not found", NOT_FOUND))
              ELSE submitOutcome(quizId, body, findManyFull(questions, quizId))
    /\ UNCHANGED <<quizzes, questions, sub>>
    /\ UNCHANGED calls

\* the submissions sent to the management API's quizzes
Submissions ==
    {[answers |-> <<>>],
     [answers |-> <<[questionId |-> 1, selectedOptionIds |-> Some(<<1>>),
                     textAnswer |-> Absent]>>],
     [answers |-> <<[questionId |-> 2, selectedOptionIds |-> Absent,
                     textAnswer |-> Some(<<"a", "B">>)],
                    [questionId |-> 1, selectedOptionIds |-> Some(<<2, 1>>),
                     textAnswer |-> Absent]>>]}

(***************************************************************************)
(* The API from the empty store, one request at a time.                    *)
(***************************************************************************)
Init ==
    /\ quizzes = <<>>
    /\ questions = <<>>
    /\ res = NoResponse
    /\ sub = NoSubmit
    /\ calls = NoCalls

Next ==
    \/ \E body \in [title : Titles] : CreateQuiz(body)
    \/ GetQuizzes
    \/ \E id \in QuizIds \cup {BadId} : GetQuizById(id)
    \/ \E id \in QuizIds \cup {BadId}, body \in [title : Titles] : UpdateQuiz(id, body)
    \/ \E id \in QuizIds \cup {BadId} : DeleteQuiz(id)
    \/ \E id \in QuizIds \cup {BadId}, body \in QuestionBodies : CreateQuestion(id, body)
    \/ \E id \in QuizIds \cup {BadId} : GetQuizQuestions(id)
    \/ \E id \in QuizIds \cup {BadId} : GetQuizQuestionsWithAnswers(id)
    \/ \E id \in QuestionIds \cup {BadId} : GetQuestionById(id)
    \/ \E id \in QuestionIds \cup {BadId}, body \in QuestionBodies : UpdateQuestion(id, body)
    \/ \E id \in QuestionIds \cup {BadId} : DeleteQuestion(id)
    \/ \E id \in QuizIds \cup {BadId}, body \in Submissions : SubmitQuizAnswers(id, body)
    \/ Respond

Spec == Init /\ [][Next]_vars

(***************************************************************************)
(* The store SpecScore starts from, built by the create calls above from   *)
(* bodies the gates accept:                                                *)
(*   quiz 1   question 1  SINGLE_CHOICE    options 1 "A", 2 "b" (correct)  *)
(*            question 2  MULTIPLE_CHOICE  options 3, 4 (correct), 5       *)
(*            question 3  TEXT             option 6 "A b" (correct)        *)
(*   quiz 2   question 4  TEXT             option 7 " b " (correct)        *)
(*   quiz 3   question 5  TEXT             option 8 "Ab", sent with        *)
(*                                         isCorrect false                 *)
(*   quiz 4   no questions                                                 *)
(***************************************************************************)
opt(text, isCorrect) == [text |-> text, isCorrect |-> isCorrect]

SeedBodies ==
    <<[text |-> <<"q">>, type |-> "SINGLE_CHOICE",
       options |-> <<opt(<<"A">>, FALSE), opt(<<"b">>, TRUE)>>],
      [text |-> <<"q">>, type |-> "MULTIPLE_CHOICE",
       options |-> <<opt(<<"A">>, TRUE), opt(<<"b">>, TRUE), opt(<<"A", "b">>, FALSE)>>],
      [text |-> <<"q">>, type |-> "TEXT", options |-> <<opt(<<"A", " ", "b">>, TRUE)>>],
      [text |-> <<"q">>, type |-> "TEXT", options |-> <<opt(<<" ", "b", " ">>, TRUE)>>],
      [text |-> <<"q">>, type |-> "TEXT", options |-> <<opt(<<"A", "b">>, FALSE)>>]>>

SeedQuizzes ==
    LET t == [title |-> <<"t">>]
    IN quizCreate(quizCreate(quizCreate(quizCreate(<<>>, 1, t), 2, t), 3, t), 4, t)

SeedQuestions ==
    LET s1 == questionCreate(<<>>, 1, <<1, 2>>, 1, SeedBodies[1])
        s2 == questionCreate(s1, 2, <<3, 4, 5>>, 1, SeedBodies[2])
        s3 == questionCreate(s2, 3, <<6>>, 1, SeedBodies[3])
        s4 == questionCreate(s3, 4, <<7>>, 2, SeedBodies[4])
    IN questionCreate(s4, 5, <<8>>, 3, SeedBodies[5])

InitScore ==
    /\ \A i \in 1..Len(SeedBodies) : createQuestionSchema(SeedBodies[i])
    /\ createQuizSchema([title |-> <<"t">>])
    /\ quizzes = SeedQuizzes
    /\ questions = SeedQuestions
    /\ res = NoResponse
    /\ sub = NoSubmit
    /\ calls = NoCalls

NextScore ==
    \/ SubmitRejected
    \/ \E quizId \in SubmitQuizIds : SubmitStart(quizId)
    \/ SubmitStep
    \/ SubmitNext
    \/ SubmitFinish
    \/ Respond

SpecScore == InitScore /\ [][NextScore]_vars

(***************************************************************************)
(* The aggregate alone: the frame of a call whose loop has counted         *)
(* correctAnswers correct answers over a quiz of up to MaxTotal questions. *)
(***************************************************************************)
placeholderQuestion(i) ==
    [id |-> i, text |-> <<"q">>, type |-> "TEXT", quizId |-> 1, options |-> <<>>]

InitPct ==
    /\ quizzes = <<>>
    /\ questions = <<>>
    /\ res = NoResponse
    /\ \E total \in 1..MaxTotal, correctAnswers \in 0..MaxTotal :
          /\ correctAnswers <= total
          /\ sub = [NoSubmit EXCEPT
                      !.pc = "counted", !.quizId = 1,
                      !.questions = [i \in 1..total |-> placeholderQuestion(i)],
                      !.correctAnswers = correctAnswers]
    /\ calls = NoCalls

Aggregate ==
    /\ sub.pc = "counted"
    /\ res' = sendSuccess("submitQuizAnswers", sub.quizId, <<>>,
                          scoreOf(sub.correctAnswers, sub.questions, sub.results),
                          "Quiz answers submitted successfully")
    /\ sub' = [sub EXCEPT !.pc = "done"]
    /\ UNCHANGED <<quizzes, questions>>
    /\ UNCHANGED calls

NextPct == Aggregate \/ Respond

SpecPct == InitPct /\ [][NextPct]_vars

(***************************************************************************)
(* A store with rows the tables admit although the gates of createQuestion *)
(* and updateQuestion reject them, as a seed script or a manual edit       *)
(* leaves them (question 3 alone is a row a request can write):            *)
(*   quiz 1   question 1  SINGLE_CHOICE  options 1 "A", 2 "b", none flagged *)
(*            question 2  SINGLE_CHOICE  options 3 "A", 4 "b", both flagged *)
(*            question 3  TEXT           option 5 "A b", not flagged        *)
(*            question 4  TEXT           no option                          *)
(*            question 5  SINGLE_CHOICE  no option                          *)
(***************************************************************************)
MalformedBodies ==
    <<[text |-> <<"q">>, type |-> "SINGLE_CHOICE",
       options |-> <<opt(<<"A">>, FALSE), opt(<<"b">>, FALSE)>>],
      [text |-> <<"q">>, type |-> "SINGLE_CHOICE",
       options |-> <<opt(<<"A">>, TRUE), opt(<<"b">>, TRUE)>>],
      [text |-> <<"q">>, type |-> "TEXT", options |-> <<opt(<<"A", " ", "b">>, FALSE)>>],
      [text |-> <<"q">>, type |-> "TEXT", options |-> <<>>],
      [text |-> <<"q">>, type |-> "SINGLE_CHOICE", options |-> <<>>]>>

MalformedQuestions ==
    LET s1 == questionCreate(<<>>, 1, <<1, 2>>, 1, MalformedBodies[1])
        s2 == questionCreate(s1, 2, <<3, 4>>, 1, MalformedBodies[2])
        s3 == questionCreate(s2, 3, <<5>>, 1, MalformedBodies[3])
        s4 == questionCreate(s3, 4, <<>>, 1, MalformedBodies[4])
    IN questionCreate(s4, 5, <<>>, 1, MalformedBodies[5])

InitMalformed ==
    /\ \A i \in {1, 2, 4, 5} : ~createQuestionSchema(MalformedBodies[i])
    /\ createQuestionSchema(MalformedBodies[3])
    /\ quizzes = quizCreate(<<>>, 1, [title |-> <<"t">>])
    /\ questions = MalformedQuestions
    /\ res = NoResponse
    /\ sub = NoSubmit
    /\ calls = NoCalls

NextMalformed ==
    \/ \E quizId \in SubmitQuizIds : SubmitStart(quizId)
    \/ SubmitStep
    \/ SubmitNext
    \/ SubmitFinish
    \/ Respond

SpecMalformed == InitMalformed /\ [][NextMalformed]_vars
(***************************************************************************)
(* Calls in flight at once.  Every service function is async and yields at *)
(* each await, so the store calls of two requests interleave.  Slot Writer *)
(* runs the writing calls, one at a time: updateQuestion, deleteQuestion,  *)
(* deleteQuiz.  The other slots run the reading calls: the learner view,   *)
(* the admin view, getQuestionById and submitQuizAnswers.  The calls have  *)
(* passed the route gates.  A read with a relation is two statements, the  *)
(* rows and then their options, and the store may change between them; a   *)
(* read served by a single statement is the run in which the two steps are *)
(* adjacent.                                                               *)
(***************************************************************************)
MaxReaders == 1

Writer == 0
Slots == 0..MaxReaders

IdleCall ==
    [op |-> "none", pc |-> "idle", id |-> BadId, body |-> <<>>, rows |-> <<>>,
     tx |-> <<>>, res |-> NoResponse]

\* the store SpecConc starts from:
\*   quiz 1   question 1  SINGLE_CHOICE  options 11 "A", 12 "b" (correct)
\*            question 2  TEXT           option 13 "A b" (correct)
ConcQuizzes == quizCreate(<<>>, 1, [title |-> <<"t">>])
ConcQuestions ==
    questionCreate(questionCreate(<<>>, 1, <<11, 12>>, 1, SeedBodies[1]),
                   2, <<13>>, 1, SeedBodies[3])

\* the requests of the scenario
ConcUpdates == {SeedBodies[2], SeedBodies[4]}
ConcSubmissions ==
    {[answers |-> <<[questionId |-> 1, selectedOptionIds |-> Some(<<12>>),
                     textAnswer |-> Absent]>>],
     [answers |-> <<[questionId |-> 2, selectedOptionIds |-> Absent,
                     textAnswer |-> Some(<<"a", " ", "b">>)],
                    [questionId |-> 1, selectedOptionIds |-> Some(<<1, 2>>),
                     textAnswer |-> Absent]>>]}
WriteOps == {"updateQuestion", "deleteQuestion", "deleteQuiz"}
ReadOps == {"getQuizQuestions", "getQuizQuestionsWithAnswers", "getQuestionById",
            "submitQuizAnswers"}
QuizOps == {"deleteQuiz", "getQuizQuestions", "getQuizQuestionsWithAnswers",
            "submitQuizAnswers"}
ConcRequests ==
    [op : {"updateQuestion"}, id : {1}, body : ConcUpdates]
    \cup [op : {"deleteQuestion"}, id : {1, 2}, body : {<<>>}]
    \cup [op : {"deleteQuiz", "getQuizQuestions", "getQuizQuestionsWithAnswers"},
          id : {1}, body : {<<>>}]
    \cup [op : {"getQuestionById"}, id : {1}, body : {<<>>}]
    \cup [op : {"submitQuizAnswers"}, id : {1}, body : ConcSubmissions]

\* errors a statement or the commit of the transaction may throw
TxErrors ==
    {thrown("PrismaClientKnownRequestError", "P2028", "Transaction API error"),
     thrown("PrismaClientUnknownRequestError", "", "unknown request error")}

\* the question rows of a read, before their options are fetched
rowOf(qs, q) == [id |-> q, text |-> qs[q].text, type |-> qs[q].type, quizId |-> qs[q].quizId]

findManyRows(qs, quizId) ==
    LET ids == sortAsc(questionIdsOfQuiz(qs, quizId))
    IN [i \in 1..Len(ids) |-> rowOf(qs, ids[i])]

\* the option rows that reference a question row at the time they are read
optionRowsOf(qs, q) == IF q \in DOMAIN qs THEN qs[q].options ELSE <<>>

\* include: { options: true } resolved for rows read earlier
withOptions(qs, row) ==
    [id |-> row.id, text |-> row.text, type |-> row.type, quizId |-> row.quizId,
     options |-> LET os == optionRowsOf(qs, row.id)
                 IN [i \in 1..Len(os) |-> fullOption(row.id, os[i])]]

\* the learner select resolved for rows read earlier
withLearnerOptions(qs, row) ==
    [id |-> row.id, text |-> row.text, type |-> row.type,
     options |-> LET os == optionRowsOf(qs, row.id)
                 IN [i \in 1..Len(os) |-> learnerOption(os[i])]]

\* a transaction whose statements take effect in the store as they run
readUncommitted(committed, uncommitted) == uncommitted

\* prisma.$transaction: what the statements of other calls read while the
\* transaction is open is the committed store
isolated(committed, uncommitted) == committed

InTx == {"begun", "deleted", "updated"}

\* a request reaches its service function
Call(s, r) ==
    /\ calls[s].pc = "idle"
    /\ IF s = Writer THEN r.op \in WriteOps ELSE r.op \in ReadOps
    /\ r.op = "updateQuestion" =>
          Cardinality(OptionIds \ optionIdsOf(questions)) >= Len(r.body.options)
    /\ calls' = [calls EXCEPT ![s] = [IdleCall EXCEPT !.op = r.op, !.pc = "called",
                                                      !.id = r.id, !.body = r.body]]
    /\ UNCHANGED <<quizzes, questions, res, sub>>

\* the first await of every call: the findUnique of the quiz or of the
\* question row it addresses, and the 404 when there is none; updateQuestion
\* keeps the question it found (existingQuestion) and opens its transaction
FindUnique(s) ==
    LET c == calls[s]
        isQuiz == c.op \in QuizOps
    IN /\ c.pc = "called"
       /\ calls' = [calls EXCEPT ![s] =
            IF isQuiz /\ ~quizExists(c.id)
            THEN [c EXCEPT !.pc = "done",
                           !.res = errorHandler(c.op, c.id, c.body,
                                                AppError("Quiz not found", NOT_FOUND))]
            ELSE IF ~isQuiz /\ c.id \notin DOMAIN questions
            THEN [c EXCEPT !.pc = "done",
                           !.res = errorHandler(c.op, c.id, c.body,
                                                AppError("Question not found", NOT_FOUND))]
            ELSE IF c.op = "getQuestionById"
            THEN [c EXCEPT !.pc = "rows", !.rows = <<rowOf(questions, c.id)>>]
            ELSE IF c.op = "updateQuestion"
            THEN [c EXCEPT !.pc = "begun", !.tx = questions,
                           !.rows = <<fullQuestion(questions, c.id)>>]
            ELSE [c EXCEPT !.pc = "found"]]
       /\ UNCHANGED <<quizzes, questions, res, sub>>

\* findMany of the quiz's questions: the question rows
FindManyRows(s) ==
    LET c == calls[s]
    IN /\ c.pc = "found"
       /\ c.op \in ReadOps
       /\ calls' = [calls EXCEPT ![s] =
                       [c EXCEPT !.pc = "rows", !.rows = findManyRows(questions, c.id)]]
       /\ UNCHANGED <<quizzes, questions, res, sub>>

\* the options of the rows read, and from there to the response without
\* another await
FindManyOptions(s) ==
    LET c == calls[s]
        found == [i \in 1..Len(c.rows) |-> withOptions(questions, c.rows[i])]
        learner == [i \in 1..Len(c.rows) |-> withLearnerOptions(questions, c.rows[i])]
    IN /\ c.pc = "rows"
       /\ calls' = [calls EXCEPT ![s] =
            [c EXCEPT
               !.pc = "done",
               !.rows = found,
               !.res =
                  IF c.op = "getQuizQuestions"
                  THEN sendSuccess(c.op, c.id, c.body, learner,
                                   "Quiz questions fetched successfully")
                  ELSE IF c.op = "getQuizQuestionsWithAnswers"
                  THEN sendSuccess(c.op, c.id, c.body, found,
                                   "Quiz questions with answers fetched successfully")
                  ELSE IF c.op = "getQuestionById"
                  THEN sendSuccess(c.op, c.id, c.body,
                                   [question |-> found[1],
                                    quiz |-> IF quizExists(found[1].quizId)
                                             THEN Some(quizRow(findUniqueQuiz(found[1].quizId)))
                                             ELSE Absent],
                                   "Question fetched successfully")
                  ELSE submitOutcome(c.id, c.body, found)]]
       /\ UNCHANGED <<quizzes, questions, res, sub>>

\* tx.option.deleteMany
TxDeleteMany(s) ==
    LET c == calls[s]
        tx == optionDeleteMany(c.tx, c.id)
    IN /\ c.pc = "begun"
       /\ calls' = [calls EXCEPT ![s] = [c EXCEPT !.pc = "deleted", !.tx = tx]]
       /\ questions' = isolated(questions, tx)
       /\ UNCHANGED <<quizzes, res, sub>>

\* tx.question.update with the nested options.create
TxUpdate(s) ==
    LET c == calls[s]
    IN /\ c.pc = "deleted"
       /\ \E ids \in freshOptionIds(questions, Len(c.body.options)) :
             LET tx == questionUpdateRow(c.tx, c.id, ids, c.body)
             IN /\ calls' = [calls EXCEPT ![s] = [c EXCEPT !.pc = "updated", !.tx = tx]]
                /\ questions' = isolated(questions, tx)
       /\ UNCHANGED <<quizzes, res, sub>>

\* the callback has returned: the commit, and the updated question goes
\* back to the controller
TxCommit(s) ==
    LET c == calls[s]
    IN /\ c.pc = "updated"
       /\ questions' = c.tx
       /\ calls' = [calls EXCEPT ![s] =
                       [c EXCEPT !.pc = "done", !.tx = <<>>,
                                 !.res = sendSuccess(c.op, c.id, c.body,
                                                     fullQuestion(c.tx, c.id),
                                                     "Question updated successfully")]]
       /\ UNCHANGED <<quizzes, res, sub>>

\* a statement of the transaction, or its commit, throws: the rollback, and
\* the error goes to the error handler
TxFail(s, err) ==
    LET c == calls[s]
    IN /\ c.pc \in InTx
       /\ calls' = [calls EXCEPT ![s] =
                       [c EXCEPT !.pc = "done", !.tx = <<>>,
                                 !.res = errorHandler(c.op, c.id, c.body, err)]]
       /\ UNCHANGED <<quizzes, questions, res, sub>>

\* prisma.question.delete / prisma.quiz.delete of the row found
Delete(s) ==
    LET c == calls[s]
    IN /\ c.pc = "found"
       /\ c.op \in {"deleteQuestion", "deleteQuiz"}
       /\ IF c.op = "deleteQuiz"
          THEN /\ quizzes' = removeQuiz(quizzes, c.id)
               /\ questions' = cascadeQuiz(questions, c.id)
               /\ calls' = [calls EXCEPT ![s] =
                    [c EXCEPT !.pc = "done",
                              !.res = sendSuccess(c.op, c.id, c.body,
                                                  [message |-> "Quiz deleted successfully"],
                                                  "Quiz deleted successfully")]]
          ELSE /\ questions' = questionDelete(questions, c.id)
               /\ calls' = [calls EXCEPT ![s] =
                    [c EXCEPT !.pc = "done",
                              !.res = sendSuccess(c.op, c.id, c.body,
                                                  [message |-> "Question deleted successfully"],
                                                  "Question deleted successfully")]]
               /\ UNCHANGED quizzes
       /\ UNCHANGED <<res, sub>>

\* the response is on the wire and the call is over
Return(s) ==
    /\ calls[s].pc = "done"
    /\ calls' = [calls EXCEPT ![s] = IdleCall]
    /\ UNCHANGED <<quizzes, questions, res, sub>>

InitConc ==
    /\ quizzes = ConcQuizzes
    /\ questions = ConcQuestions
    /\ res = NoResponse
    /\ sub = NoSubmit
    /\ calls = [s \in Slots |-> IdleCall]

NextConc ==
    \/ \E s \in Slots, r \in ConcRequests : Call(s, r)
    \/ \E s \in Slots : FindUnique(s)
    \/ \E s \in Slots : FindManyRows(s)
    \/ \E s \in Slots : FindManyOptions(s)
    \/ \E s \in Slots : TxDeleteMany(s)
    \/ \E s \in Slots : TxUpdate(s)
    \/ \E s \in Slots : TxCommit(s)
    \/ \E s \in Slots, err \in TxErrors : TxFail(s, err)
    \/ \E s \in Slots : Delete(s)
    \/ \E s \in Slots : Return(s)

SpecConc == InitConc /\ [][NextConc]_vars

(***************************************************************************)
(* Store failures.  A store call of a service function rejects, the        *)
(* controller's catch hands the error to next(error) and the global error  *)
(* handler answers.  The call is the one frame in calls.                   *)
(***************************************************************************)
Operations ==
    {"createQuiz", "getQuizzes", "getQuizById", "updateQuiz", "deleteQuiz",
     "createQuestion", "getQuizQuestions", "getQuizQuestionsWithAnswers",
     "submitQuizAnswers", "getQuestionById", "updateQuestion", "deleteQuestion"}

\* persistence errors the Prisma client raises: unique constraint (P2002),
\* foreign key (P2003), record not found (P2025), pool timeout (P2024),
\* transaction error (P2028), an unknown request error, no connection to
\* the database server, an engine panic
StoreErrors ==
    {thrown("PrismaClientKnownRequestError", code, "Invalid invocation") :
        code \in {"P2002", "P2003", "P2025", "P2024", "P2028"}}
    \cup {thrown("PrismaClientUnknownRequestError", "", "unknown request error"),
          thrown("PrismaClientInitializationError", "", "Can't reach database server"),
          thrown("PrismaClientRustPanicError", "", "")}

\* a store call of the request has rejected with err
rejected(op, err, env) ==
    [op |-> op, pc |-> "threw", id |-> 1, body |-> <<>>, err |-> err,
     NODE_ENV |-> env, res |-> NoResponse]

\* catch (error) { next(error) }: the error handler writes the response;
\* no store call is made again
HandleError ==
    /\ Len(calls) = 1
    /\ calls[1].pc = "threw"
    /\ calls' = <<[calls[1] EXCEPT
                     !.pc = "done",
                     !.res = errorHandlerIn(calls[1].NODE_ENV, calls[1].op, calls[1].id,
                                            calls[1].body, calls[1].err)]>>
    /\ UNCHANGED <<quizzes, questions, res, sub>>

InitErr ==
    /\ quizzes = SeedQuizzes
    /\ questions = SeedQuestions
    /\ res = NoResponse
    /\ sub = NoSubmit
    /\ \E op \in Operations, err \in StoreErrors, env \in NodeEnvs :
          calls = <<rejected(op, err, env)>>

NextErr == HandleError

SpecErr == InitErr /\ [][NextErr]_vars


(***************************************************************************)
(* Errors that are not store failures: what a controller or a middleware   *)
(* hands to next(error) besides a rejected store call.                     *)
(***************************************************************************)
\* a runtime error with a message, a TypeError, an error without a message,
\* an error named ValidationError, the error express.json() raises on a
\* malformed body (it carries statusCode 400) and an AppError of a service
UnexpectedErrors ==
    {thrown("Error", "", "boom"),
     thrown("TypeError", "", "Cannot read properties of undefined"),
     thrown("Error", "", ""),
     thrown("ValidationError", "", "title is required"),
     [name |-> "SyntaxError", code |-> "", message |-> "Unexpected token",
      statusCode |-> BAD_REQUEST],
     AppError("Quiz not found", NOT_FOUND)}

InitUnexpected ==
    /\ quizzes = SeedQuizzes
    /\ questions = SeedQuestions
    /\ res = NoResponse
    /\ sub = NoSubmit
    /\ \E op \in Operations, err \in UnexpectedErrors, env \in NodeEnvs :
          calls = <<rejected(op, err, env)>>

NextUnexpected == HandleError

SpecUnexpected == InitUnexpected /\ [][NextUnexpected]_vars
(***************************************************************************)
(* Submissions in flight at once over a store nobody writes: the store of  *)
(* SpecScore, and MaxSubmitters calls of submitQuizAnswers, each paused at *)
(* its awaits.                                                             *)
(***************************************************************************)
MaxSubmitters == 2

Submitters == 1..MaxSubmitters

sel(questionId, ids) ==
    [questionId |-> questionId, selectedOptionIds |-> Some(ids), textAnswer |-> Absent]
txt(questionId, text) ==
    [questionId |-> questionId, selectedOptionIds |-> Absent, textAnswer |-> Some(text)]

TwoSubmissions ==
    {[answers |-> <<sel(1, <<2>>)>>],
     [answers |-> <<sel(1, <<2>>), sel(2, <<4, 3>>)>>],
     [answers |-> <<txt(3, <<"a", " ", "b">>), sel(1, <<1>>)>>],
     [answers |-> <<txt(4, <<"B">>)>>]}

TwoRequests == [op : {"submitQuizAnswers"}, id : {1, 2}, body : TwoSubmissions]

InitTwo ==
    /\ quizzes = SeedQuizzes
    /\ questions = SeedQuestions
    /\ res = NoResponse
    /\ sub = NoSubmit
    /\ calls = [s \in Submitters |-> IdleCall]

NextTwo ==
    \/ \E s \in Submitters, r \in TwoRequests : Call(s, r)
    \/ \E s \in Submitters : FindUnique(s)
    \/ \E s \in Submitters : FindManyRows(s)
    \/ \E s \in Submitters : FindManyOptions(s)
    \/ \E s \in Submitters : Return(s)

SpecTwo == InitTwo /\ [][NextTwo]_vars

(***************************************************************************)
(* One request through its route: validateParams, validateBody where the   *)
(* route has one, the controller with its service call, and the global     *)
(* error handler.  The frame of the request keeps in sent every response   *)
(* written for it, in the order of the sendSuccess and sendError calls.    *)
(***************************************************************************)
\* the store the request meets:
\*   quiz 1   question 1  SINGLE_CHOICE  options 11 "A", 12 "b" (correct)
PipeQuizzes == quizCreate(<<>>, 1, [title |-> <<"t">>])
PipeQuestions == questionCreate(<<>>, 1, <<11, 12>>, 1, SeedBodies[1])

QuizRoutes ==
    {"createQuestion", "getQuizQuestions", "getQuizQuestionsWithAnswers",
     "submitQuizAnswers"}
QuestionRoutes == {"getQuestionById", "updateQuestion", "deleteQuestion"}
BodyRoutes == {"createQuestion", "updateQuestion", "submitQuizAnswers"}

\* a question body the gate accepts and one it rejects
PipeQuestionBodies ==
    {SeedBodies[3],
     [text |-> <<>>, type |-> "TEXT", options |-> <<[text |-> OptionText, isCorrect |-> TRUE]>>]}

\* no answer, a correct answer to question 1, an answer to a question the
\* quiz does not own
PipeSubmissions ==
    {[answers |-> <<>>],
     [answers |-> <<sel(1, <<12>>)>>],
     [answers |-> <<sel(2, <<12>>)>>]}

PipeRequests ==
    [op : {"createQuestion"}, id : {BadId, 1, 2}, body : PipeQuestionBodies]
    \cup [op : {"updateQuestion"}, id : {BadId, 1, 2}, body : PipeQuestionBodies]
    \cup [op : {"submitQuizAnswers"}, id : {BadId, 1, 2}, body : PipeSubmissions]
    \cup [op : {"getQuizQuestions", "getQuizQuestionsWithAnswers", "getQuestionById",
                "deleteQuestion"},
          id : {BadId, 1, 2}, body : {<<>>}]

NoError == thrown("", "", "")

\* the request at the first middleware of its route
arrived(r) ==
    [op |-> r.op, id |-> r.id, body |-> r.body, pc |-> "validateParams",
     err |-> NoError, sent |-> <<>>]

\* the schema each route hands to validateParams and to validateBody
paramsSchemaOf(op, id) ==
    IF op \in QuizRoutes THEN quizIdParamSchema(id) ELSE questionIdSchema(id)

bodySchemaOf(op, body) ==
    IF op = "submitQuizAnswers" THEN submitAnswersSchema(body) ELSE createQuestionSchema(body)

\* what a service call comes back with: a value, or an error thrown
returned(data, message, qs) ==
    [thrown |-> FALSE, err |-> NoError, data |-> data, message |-> message, qs |-> qs]
threw(err) ==
    [thrown |-> TRUE, err |-> err, data |-> <<>>, message |-> "", qs |-> <<>>]

\* the service function of the route, on the store as it is
service(op, id, body, qs) ==
    IF op \in QuizRoutes /\ ~quizExists(id)
    THEN {threw(AppError("Quiz not found", NOT_FOUND))}
    ELSE IF op \in QuestionRoutes /\ id \notin DOMAIN qs
    THEN {threw(AppError("Question not found", NOT_FOUND))}
    ELSE IF op = "createQuestion"
    THEN {returned(fullQuestion(questionCreate(qs, q, ids, id, body), q),
                   "Question created successfully",
                   questionCreate(qs, q, ids, id, body)) :
             q \in {2} \ DOMAIN qs, ids \in freshOptionIds(qs, Len(body.options))}
    ELSE IF op = "updateQuestion"
    THEN {returned(fullQuestion(questionUpdate(qs, id, ids, body), id),
                   "Question updated successfully",
                   questionUpdate(qs, id, ids, body)) :
             ids \in freshOptionIds(qs, Len(body.options))}
    ELSE IF op = "deleteQuestion"
    THEN {returned([message |-> "Question deleted successfully"],
                   "Question deleted successfully", questionDelete(qs, id))}
    ELSE IF op = "getQuestionById"
    THEN {returned([question |-> fullQuestion(qs, id),
                    quiz |-> quizRow(findUniqueQuiz(qs[id].quizId))],
                   "Question fetched successfully", qs)}
    ELSE IF op = "getQuizQuestions"
    THEN {returned(findManyLearner(qs, id), "Quiz questions fetched successfully", qs)}
    ELSE IF op = "getQuizQuestionsWithAnswers"
    THEN {returned(findManyFull(qs, id),
                   "Quiz questions with answers fetched successfully", qs)}
    ELSE LET found == findManyFull(qs, id)
             end == scoreLoop(found, body.answers, loopStart)
         IN IF noQuestions(found)
            THEN {threw(AppError("No questions found for this quiz", BAD_REQUEST))}
            ELSE IF end.thrown
            THEN {threw(AppError("Question not found in this quiz", BAD_REQUEST))}
            ELSE {returned(scoreOf(end.correctAnswers, found, end.results),
                           "Quiz answers submitted successfully", qs)}

\* a gate that answers 400 and calls next() all the same
ValidateBodyAndGoOn ==
    LET c == calls[1]
    IN /\ c.pc = "validateBody"
       /\ calls' = <<[c EXCEPT
                        !.pc = "controller",
                        !.sent = IF bodySchemaOf(c.op, c.body) THEN @
                                 ELSE Append(@, sendError(c.op, c.id, c.body,
                                                          "Validation failed", BAD_REQUEST))]>>
       /\ UNCHANGED <<quizzes, questions, res, sub>>

\* validateParams(schema): next(), or the 400 and no next()
ValidateParams ==
    LET c == calls[1]
    IN /\ c.pc = "validateParams"
       /\ calls' = <<IF paramsSchemaOf(c.op, c.id)
                     THEN [c EXCEPT !.pc = IF c.op \in BodyRoutes THEN "validateBody"
                                           ELSE "controller"]
                     ELSE [c EXCEPT !.pc = "done",
                                    !.sent = Append(@, sendError(c.op, c.id, c.body,
                                                                 "Parameter validation failed",
                                                                 BAD_REQUEST))]>>
       /\ UNCHANGED <<quizzes, questions, res, sub>>

\* validateBody(schema): next(), or the 400 and no next()
ValidateBody ==
    LET c == calls[1]
    IN /\ c.pc = "validateBody"
       /\ calls' = <<IF bodySchemaOf(c.op, c.body)
                     THEN [c EXCEPT !.pc = "controller"]
                     ELSE [c EXCEPT !.pc = "done",
                                    !.sent = Append(@, sendError(c.op, c.id, c.body,
                                                                 "Validation failed",
                                                                 BAD_REQUEST))]>>
       /\ UNCHANGED <<quizzes, questions, res, sub>>

\* the controller: try { result = await service(...); return sendSuccess }
\* catch (err) { next(err) }
Controller ==
    LET c == calls[1]
    IN /\ c.pc = "controller"
       /\ \E o \in service(c.op, c.id, c.body, questions) :
             /\ calls' = <<IF o.thrown
                           THEN [c EXCEPT !.pc = "errorHandler", !.err = o.err]
                           ELSE [c EXCEPT !.pc = "done",
                                          !.sent = Append(@, sendSuccess(c.op, c.id, c.body,
                                                                         o.data, o.message))]>>
             /\ questions' = IF o.thrown THEN questions ELSE o.qs
       /\ UNCHANGED <<quizzes, res, sub>>

\* a store call of the service rejects: the same catch
ControllerRejected(err) ==
    LET c == calls[1]
    IN /\ c.pc = "controller"
       /\ calls' = <<[c EXCEPT !.pc = "errorHandler", !.err = err]>>
       /\ UNCHANGED <<quizzes, questions, res, sub>>

\* the global error handler: one sendError on every branch
ErrorHandler ==
    LET c == calls[1]
    IN /\ c.pc = "errorHandler"
       /\ calls' = <<[c EXCEPT !.pc = "done",
                               !.sent = Append(@, errorHandler(c.op, c.id, c.body, c.err))]>>
       /\ UNCHANGED <<quizzes, questions, res, sub>>

InitPipe ==
    /\ quizzes = PipeQuizzes
    /\ questions = PipeQuestions
    /\ res = NoResponse
    /\ sub = NoSubmit
    /\ \E r \in PipeRequests : calls = <<arrived(r)>>

NextPipe ==
    \/ ValidateParams
    \/ ValidateBody
    \/ Controller
    \/ \E err \in StoreErrors : ControllerRejected(err)
    \/ ErrorHandler

SpecPipe == InitPipe /\ [][NextPipe]_vars

(***************************************************************************)
(* Properties of submitQuizAnswers.                                        *)
(***************************************************************************)
SubmitSucceeded == res.op = "submitQuizAnswers" /\ res.envelope = "success"

\* the loop has just scored an answer
Scored == sub.pc = "scored"
theAnswer == Get(sub.answer)
theResult == sub.results[Len(sub.results)]
theQuestion == questions[theAnswer.questionId]

\* the questions the quiz owns, counted in the store
ownedQuestions(quizId) == {q \in DOMAIN questions : questions[q].quizId = quizId}

\* C1: every successful submission's aggregate has 0 <= score <= total.
C1_ScoreBound ==
    SubmitSucceeded => res.data.score >= 0 /\ res.data.score <= res.data.total

\* C1: a quiz of one question answered twice, correctly both times, scores
\* 2 out of 1.
C1_DuplicateAnswersCounted ==
    /\ SubmitSucceeded
    /\ res.data.total = 1
    /\ res.data.score = 2
    /\ res.data.percentage = 200
    /\ res.data.results[1].questionId = res.data.results[2].questionId

\* C2: the total of a successful submission is the number of questions the
\* quiz owns, however many answers were processed, and the score is the
\* number of results marked correct, so a question without an answer adds 1
\* to the total and nothing to the score.
C2_TotalIsQuestionCount ==
    SubmitSucceeded =>
        /\ res.data.total = Cardinality(ownedQuestions(res.id))
        /\ res.data.score =
              Cardinality({i \in 1..Len(res.data.results) : res.data.results[i].isCorrect})

\* C2: three questions, one answered, correctly: score 1, total 3,
\* percentage 33.
C2_OneOfThree ==
    /\ SubmitSucceeded
    /\ Cardinality(ownedQuestions(res.id)) = 3
    /\ Len(res.data.results) = 1
    /\ res.data.score = 1
    /\ res.data.total = 3
    /\ res.data.percentage = 33

\* C3: the percentage of a successful submission is 100 * score / total
\* rounded to the nearest integer, an exact half going up.
C3_PercentageHalfUp ==
    SubmitSucceeded =>
        res.data.percentage = (200 * res.data.score + res.data.total) \div (2 * res.data.total)

\* C3: 23 correct out of 40 is exactly 57.5 percent and is reported as 57.
C3_HalfRoundedDown ==
    /\ SubmitSucceeded
    /\ res.data.score = 23
    /\ res.data.total = 40
    /\ res.data.percentage = 57

\* the answer being processed names a question the target quiz does not own
ForeignAnswer ==
    /\ sub.pc \in {"scored", "thrown", "done"}
    /\ theAnswer.questionId \notin ownedQuestions(sub.quizId)

\* C4: an answer naming a question that is not one of the target quiz's
\* questions fails the call with 400 and no data, whatever was scored before
\* it; a successful response holds results of the quiz's own questions only.
C4_UnknownQuestionAborts ==
    /\ ForeignAnswer =>
          /\ sub.pc = "thrown"
          /\ res.op = "submitQuizAnswers"
          /\ res.envelope = "error"
          /\ res.status = BAD_REQUEST
          /\ res.data = <<>>
    /\ SubmitSucceeded =>
          \A i \in 1..Len(res.data.results) :
              res.data.results[i].questionId \in ownedQuestions(res.id)

\* C4: the second answer of a list names a question of another quiz, after
\* a first answer that was scored.
C4_ForeignSecondAnswer ==
    /\ ForeignAnswer
    /\ Len(sub.results) = 1
    /\ theAnswer.questionId \in DOMAIN questions
    /\ res.status = BAD_REQUEST

(***************************************************************************)
(* The results list.                                                       *)
(***************************************************************************)
\* the loop body has run for one more answer of the list
AnswerProcessed == sub.pc = "loop" /\ sub'.pc = "scored"

\* the list is exhausted and the score object is sent
Finished == sub.pc = "scored" /\ sub'.pc = "done"

ResultsStep ==
    /\ AnswerProcessed =>
          /\ Len(sub'.results) = Len(sub.results) + 1
          /\ \A i \in 1..Len(sub.results) : sub'.results[i] = sub.results[i]
          /\ sub'.results[Len(sub'.results)].questionId = Get(sub'.answer).questionId
    /\ ~AnswerProcessed => sub'.results = sub.results \/ sub'.results = <<>>
    /\ Finished =>
          /\ res'.envelope = "success"
          /\ res'.data.results = sub.results

\* C13: the results of a successful submission follow its answers: each
\* answer the loop reaches adds exactly one entry at the end of the list,
\* carrying that answer's questionId, no other step adds, removes or moves
\* an entry, and the list sent is the list so built; so the i-th entry is
\* the entry of the i-th answer.
C13_ResultsFollowAnswers == [][ResultsStep]_vars

\* a submission answered question 3 and then question 1 of quiz 1, and
\* the results come back in that order
C13_AnsweredThreeThenOne ==
    /\ SubmitSucceeded
    /\ Len(res.data.results) = 2
    /\ res.data.results[1].questionId = 3
    /\ res.data.results[2].questionId = 1

(***************************************************************************)
(* The range of the percentage.                                            *)
(***************************************************************************)
\* the questions of the quiz that some result marks correct
answeredCorrectly(quizId, results) ==
    {q \in ownedQuestions(quizId) :
        \E i \in 1..Len(results) : results[i].questionId = q /\ results[i].isCorrect}

\* C27: the percentage of a successful submission is an integer from 0 to
\* 100, and it is 100 only if every question of the quiz was answered
\* correctly.
C27_PercentageRange ==
    SubmitSucceeded =>
        /\ res.data.percentage \in 0..100
        /\ res.data.percentage = 100 =>
              answeredCorrectly(res.id, res.data.results) = ownedQuestions(res.id)

\* C27: quiz 2 has the one question 4; a submission that answers it
\* correctly twice is reported above 100 percent
C27_AboveOneHundred ==
    /\ SubmitSucceeded
    /\ res.id = 2
    /\ ownedQuestions(res.id) = {4}
    /\ Len(res.data.results) = 2
    /\ \A i \in 1..2 : res.data.results[i].questionId = 4 /\ res.data.results[i].isCorrect
    /\ res.data.percentage > 100

(***************************************************************************)
(* Equality of two texts up to letter case and leading/trailing            *)
(* whitespace, stated on the characters themselves.                        *)
(***************************************************************************)
\* the positions of s that hold something other than whitespace
inkOf(s) == {i \in 1..Len(s) : s[i] \notin WhiteSpace}

\* s without its leading and trailing whitespace
coreOf(s) ==
    IF inkOf(s) = {} THEN <<>>
    ELSE SubSeq(s, CHOOSE i \in inkOf(s) : \A j \in inkOf(s) : i <= j,
                   CHOOSE i \in inkOf(s) : \A j \in inkOf(s) : i >= j)

sameLetter(a, b) == a = b \/ {a, b} = {"A", "a"} \/ {a, b} = {"B", "b"}

equalUpToCaseAndEdges(s, t) ==
    /\ Len(coreOf(s)) = Len(coreOf(t))
    /\ \A i \in 1..Len(coreOf(s)) : sameLetter(coreOf(s)[i], coreOf(t)[i])

\* the stored options of a question that are flagged correct
flaggedOptions(question) ==
    {i \in 1..Len(question.options) : question.options[i].isCorrect}

\* the answer supplies a text
SuppliesText == IsPresent(theAnswer.textAnswer) /\ Get(theAnswer.textAnswer) # <<>>

\* C5: an answer that supplies text to a TEXT question with a correct option
\* is scored correct iff its text equals the correct option's text up to
\* letter case and leading/trailing whitespace; internal whitespace counts.
C5_TextComparison ==
    (/\ Scored
     /\ theQuestion.type = "TEXT"
     /\ flaggedOptions(theQuestion) # {}
     /\ SuppliesText)
    => (theResult.isCorrect <=>
            equalUpToCaseAndEdges(
                Get(theAnswer.textAnswer),
                theQuestion.options[CHOOSE i \in flaggedOptions(theQuestion) : TRUE].text))

\* C5: " a B " is scored correct against "A b", and "Ab", which differs in
\* internal whitespace only, was scored incorrect before it.
C5_CaseAndEdgesMatch ==
    /\ Scored
    /\ theAnswer.questionId = 3
    /\ theQuestion.options[1].text = <<"A", " ", "b">>
    /\ theAnswer.textAnswer = Some(<<" ", "a", " ", "B", " ">>)
    /\ theResult.isCorrect
    /\ Len(sub.results) = 2
    /\ sub.results[1].questionId = 3
    /\ ~sub.results[1].isCorrect

\* the selected identifiers of the answer, none when the field is absent
selectedOf(answer) ==
    IF IsPresent(answer.selectedOptionIds)
    THEN {Get(answer.selectedOptionIds)[i] : i \in 1..Len(Get(answer.selectedOptionIds))}
    ELSE {}

flaggedIds(question) == {question.options[i].id : i \in flaggedOptions(question)}

\* C6: an answer to a MULTIPLE_CHOICE question is scored correct iff the set
\* of its selected identifiers equals the set of the question's correct
\* option identifiers.
C6_MultipleChoiceSetEquality ==
    (Scored /\ theQuestion.type = "MULTIPLE_CHOICE")
    => (theResult.isCorrect <=> selectedOf(theAnswer) = flaggedIds(theQuestion))

\* C6: the two correct options selected in reverse order with one of them
\* repeated are scored correct.
C6_ReorderedWithDuplicate ==
    /\ Scored
    /\ theQuestion.type = "MULTIPLE_CHOICE"
    /\ flaggedIds(theQuestion) = {3, 4}
    /\ theAnswer.selectedOptionIds = Some(<<4, 3, 4>>)
    /\ theResult.isCorrect

\* C7: an answer to a SINGLE_CHOICE question is scored correct iff it lists
\* exactly one identifier, the question has exactly one correct option and
\* the identifier is that option's.
C7_SingleChoiceExactlyOne ==
    (Scored /\ theQuestion.type = "SINGLE_CHOICE")
    => (theResult.isCorrect <=>
            /\ IsPresent(theAnswer.selectedOptionIds)
            /\ Len(Get(theAnswer.selectedOptionIds)) = 1
            /\ Cardinality(flaggedIds(theQuestion)) = 1
            /\ selectedOf(theAnswer) = flaggedIds(theQuestion))

\* C7: the correct option selected together with another one is scored
\* incorrect.
C7_CorrectPlusOther ==
    /\ Scored
    /\ theQuestion.type = "SINGLE_CHOICE"
    /\ flaggedIds(theQuestion) = {2}
    /\ theAnswer.selectedOptionIds = Some(<<2, 1>>)
    /\ ~theResult.isCorrect

\* C10: a stored TEXT question has exactly one option, and an answer whose
\* text equals that option's text up to letter case and leading/trailing
\* whitespace is scored correct, whatever the option's isCorrect flag.
C10_TextOptionIsTheAnswer ==
    /\ \A q \in DOMAIN questions :
          questions[q].type = "TEXT" => Len(questions[q].options) = 1
    /\ (/\ Scored
        /\ theQuestion.type = "TEXT"
        /\ SuppliesText
        /\ equalUpToCaseAndEdges(Get(theAnswer.textAnswer), theQuestion.options[1].text))
       => theResult.isCorrect

\* C10: the option "Ab" was sent with isCorrect false; the answer "Ab" is
\* scored incorrect.
C10_UnflaggedOptionRejectsItsText ==
    /\ Scored
    /\ theQuestion.type = "TEXT"
    /\ ~theQuestion.options[1].isCorrect
    /\ Get(theAnswer.textAnswer) = theQuestion.options[1].text
    /\ ~theResult.isCorrect

(***************************************************************************)
(* Stored questions the gates would not have let in.                       *)
(***************************************************************************)
\* a SINGLE_CHOICE question without exactly one option flagged correct, or
\* a TEXT question without an option flagged correct
malformed(q) ==
    \/ q.type = "SINGLE_CHOICE" /\ Cardinality(flaggedOptions(q)) # 1
    \/ q.type = "TEXT" /\ flaggedOptions(q) = {}

\* C15: scoring never fails on malformed stored data.  An answer to a
\* SINGLE_CHOICE question with no or several options flagged correct, or to
\* a TEXT question with none, is marked incorrect and the loop goes on; the
\* only error the loop raises is the 400 for an answer whose question the
\* quiz does not own; a loop that reaches the end of the list sends the
\* score object.
C15_MalformedScoresIncorrect ==
    /\ Scored /\ malformed(theQuestion) => ~theResult.isCorrect
    /\ sub.pc = "thrown" =>
          /\ theAnswer.questionId \notin ownedQuestions(sub.quizId)
          /\ res.status = BAD_REQUEST
          /\ res.message = "Question not found in this quiz"
    /\ sub.pc = "done" =>
          /\ SubmitSucceeded
          /\ res.status = OK
          /\ \A i \in 1..Len(res.data.results) :
                malformed(questions[res.data.results[i].questionId]) =>
                   ~res.data.results[i].isCorrect

\* question 2 has two options flagged correct; an answer that selects one
\* of them is marked incorrect and the submission succeeds
C15_TwoFlaggedOneSelected ==
    /\ SubmitSucceeded
    /\ sub.pc = "done"
    /\ theAnswer.questionId = 2
    /\ selectedIdsOf(theAnswer) = <<3>>
    /\ Cardinality(flaggedOptions(questions[2])) = 2
    /\ ~theResult.isCorrect

(***************************************************************************)
(* The submission gate.                                                    *)
(***************************************************************************)
selects(a) == IsPresent(a.selectedOptionIds) /\ Len(Get(a.selectedOptionIds)) >= 1
nonBlank(a) ==
    /\ IsPresent(a.textAnswer)
    /\ \E i \in 1..Len(Get(a.textAnswer)) : Get(a.textAnswer)[i] \notin WhiteSpace
exactlyOneKind(a) == (selects(a) /\ ~nonBlank(a)) \/ (nonBlank(a) /\ ~selects(a))

\* no answer with both kinds, or with neither, is among the accepted ones
GateAcceptsOneKindOnly == \A a \in AnswerInputs : a \in AcceptedAnswers => exactlyOneKind(a)

\* a body with no answer, or with an answer of both kinds or of neither
breaksTheRule(body) ==
    \/ Len(body.answers) = 0
    \/ \E i \in 1..Len(body.answers) : ~exactlyOneKind(body.answers[i])

\* C16: every answer that passes the submission gate has a non-empty
\* selectedOptionIds list or a non-blank textAnswer, never both and never
\* neither; a submission with no answer, or with an answer that breaks this,
\* is answered 400 and the loop never runs for it.
C16_AnswerHasOneKind ==
    /\ GateAcceptsOneKindOnly
    /\ IsPresent(sub.answer) => exactlyOneKind(theAnswer)
    /\ (res.op = "submitQuizAnswers" /\ res.body # <<>>) =>
          (breaksTheRule(res.body) =>
              /\ res.status = BAD_REQUEST
              /\ res.envelope = "error"
              /\ sub.pc = "idle"
              /\ sub.results = <<>>)

\* a body whose one answer both selects an option and gives a text has
\* been answered 400
C16_BothKindsRejected ==
    /\ res.op = "submitQuizAnswers"
    /\ res.status = BAD_REQUEST
    /\ res.body # <<>>
    /\ Len(res.body.answers) = 1
    /\ selects(res.body.answers[1])
    /\ nonBlank(res.body.answers[1])
    /\ isUuid(res.body.answers[1].questionId)
    /\ sub.pc = "idle"

(***************************************************************************)
(* Answers of the wrong kind.                                              *)
(***************************************************************************)
onlySelection(a) == IsPresent(a.selectedOptionIds) /\ ~IsPresent(a.textAnswer)
onlyText(a) == IsPresent(a.textAnswer) /\ ~IsPresent(a.selectedOptionIds)

\* the answer's kind is not the kind the question's type reads
misfit(q, a) ==
    \/ q.type = "TEXT" /\ onlySelection(a)
    \/ q.type \in {"SINGLE_CHOICE", "MULTIPLE_CHOICE"} /\ onlyText(a)

correctResults(results) == {i \in 1..Len(results) : results[i].isCorrect}

MisfitStep ==
    /\ (/\ sub.pc = "loop"
        /\ sub'.pc \in {"scored", "thrown"}
        /\ Get(sub'.answer).questionId \in ownedQuestions(sub.quizId)
        /\ misfit(questions[Get(sub'.answer).questionId], Get(sub'.answer)))
       => /\ sub'.pc = "scored"
          /\ res' = res
          /\ Len(sub'.results) = Len(sub.results) + 1
          /\ ~sub'.results[Len(sub'.results)].isCorrect
          /\ sub'.correctAnswers = sub.correctAnswers
    /\ Finished =>
          /\ res'.envelope = "success"
          /\ res'.status = OK
          /\ res'.data.score = Cardinality(correctResults(sub.results))

\* C24: an answer whose kind does not fit the question's type (only
\* selectedOptionIds to a TEXT question, only textAnswer to a SINGLE_CHOICE
\* or MULTIPLE_CHOICE question) raises no error: the loop marks it
\* incorrect, leaves the count as it was and goes on, and the submission
\* ends with the score of the answers that were correct.
C24_MisfitAnswerIsIncorrect == [][MisfitStep]_vars

\* question 1 was answered correctly, then the TEXT question 3 was answered
\* with a selection: one correct out of two results
C24_SelectionToTextQuestion ==
    /\ SubmitSucceeded
    /\ sub.pc = "done"
    /\ Len(res.data.results) = 2
    /\ res.data.results[1].isCorrect
    /\ res.data.results[2].questionId = 3
    /\ questions[3].type = "TEXT"
    /\ onlySelection(theAnswer)
    /\ ~res.data.results[2].isCorrect
    /\ res.data.score = 1

(***************************************************************************)
(* The correct answer a result carries.                                    *)
(***************************************************************************)
\* the texts of the options flagged correct, in the question's option order
flaggedTexts(q) ==
    LET f == SelectSeq(q.options, LAMBDA o : o.isCorrect)
    IN [i \in 1..Len(f) |-> f[i].text]

\* what the result of an answer to q is to carry as correctAnswer
canonicalAnswer(q) ==
    IF q.type = "MULTIPLE_CHOICE"
    THEN [kind |-> "list", value |-> flaggedTexts(q)]
    ELSE [kind |-> "string",
          value |-> IF flaggedTexts(q) = <<>> THEN <<>> ELSE flaggedTexts(q)[1]]

\* C25: each result's correctAnswer is the canonical answer of its
\* question, whether or not the answer was correct: the correct option's
\* text for TEXT, the first correct option's text (or the empty string) for
\* SINGLE_CHOICE, the list of all correct option texts in option order for
\* MULTIPLE_CHOICE.
C25_CorrectAnswerIsCanonical ==
    Scored => theResult.correctAnswer = canonicalAnswer(theQuestion)

\* C25: the TEXT question 3 has the correct option "A b"; an answer that
\* carries a selection and no text gets the empty string as correctAnswer
C25_TextQuestionWithoutTextAnswer ==
    /\ Scored
    /\ theAnswer.questionId = 3
    /\ theQuestion.type = "TEXT"
    /\ theQuestion.options[1].isCorrect
    /\ theQuestion.options[1].text = <<"A", " ", "b">>
    /\ onlySelection(theAnswer)
    /\ theResult.correctAnswer = [kind |-> "string", value |-> <<>>]

(***************************************************************************)
(* Properties of the management API.                                       *)
(***************************************************************************)
\* the store with the isCorrect flag of the options in T negated
flipFlags(qs, T) ==
    [q \in DOMAIN qs |->
        [qs[q] EXCEPT !.options =
            [i \in 1..Len(qs[q].options) |->
                IF qs[q].options[i].id \in T
                THEN [qs[q].options[i] EXCEPT !.isCorrect = ~@]
                ELSE qs[q].options[i]]]]

LearnerViewSent == res.op = "getQuizQuestions" /\ res.envelope = "success"

\* C8: no option of a learner view carries an isCorrect field, and the view
\* sent is the view of every store that differs from this one in isCorrect
\* flags only.
C8_LearnerViewHidesCorrectness ==
    LearnerViewSent =>
        /\ \A i \in 1..Len(res.data) : \A j \in 1..Len(res.data[i].options) :
              DOMAIN res.data[i].options[j] = {"id", "text"}
        /\ \A T \in SUBSET optionIdsOf(questions) :
              findManyLearner(flipFlags(questions, T), res.id) = res.data

\* C8: a learner view of a question with a correct and an incorrect option.
C8_ViewOfMixedFlags ==
    /\ LearnerViewSent
    /\ Len(res.data) >= 1
    /\ Len(res.data[1].options) = 2
    /\ \E q \in DOMAIN questions :
          /\ questions[q].quizId = res.id
          /\ Len(questions[q].options) = 2
          /\ questions[q].options[1].isCorrect # questions[q].options[2].isCorrect

\* the number of options of a body or of a stored question flagged correct
flaggedCount(options) == Cardinality({i \in 1..Len(options) : options[i].isCorrect})

\* a question with at least one option, exactly one correct option when
\* SINGLE_CHOICE and at least one when MULTIPLE_CHOICE
wellFormed(question) ==
    /\ Len(question.options) >= 1
    /\ question.type = "SINGLE_CHOICE" => flaggedCount(question.options) = 1
    /\ question.type = "MULTIPLE_CHOICE" => flaggedCount(question.options) >= 1

StoredQuestionsWellFormed == \A q \in DOMAIN questions : wellFormed(questions[q])

\* a create-question or update-question request has been answered whose
\* question would not be well formed
IllFormedRequestAnswered ==
    /\ res.op = "none"
    /\ res'.op \in {"createQuestion", "updateQuestion"}
    /\ ~wellFormed(res'.body)

\* C9: every stored question is well formed after any sequence of requests,
\* and a create-question or update-question request whose question would
\* not be is answered 400 and leaves the store as it was.
C9_StoredQuestionInvariants ==
    /\ []StoredQuestionsWellFormed
    /\ [][IllFormedRequestAnswered =>
             /\ res'.status = BAD_REQUEST
             /\ res'.envelope = "error"
             /\ questions' = questions
             /\ quizzes' = quizzes]_vars

\* C9: an update of a stored question to SINGLE_CHOICE with two correct
\* options has been answered 400.
C9_TwoCorrectRejected ==
    /\ res.op = "updateQuestion"
    /\ res.id \in DOMAIN questions
    /\ res.body.type = "SINGLE_CHOICE"
    /\ flaggedCount(res.body.options) = 2
    /\ res.status = BAD_REQUEST
    /\ questions[res.id].type = "SINGLE_CHOICE"

(***************************************************************************)
(* Deletes.                                                                *)
(***************************************************************************)
Answered(op) == res.op = "none" /\ res'.op = op
Succeeded(op) == Answered(op) /\ res'.envelope = "success"

optionIdsOfQuestion(qs, q) == {qs[q].options[i].id : i \in 1..Len(qs[q].options)}
quizRows(qz) == {qz[i] : i \in 1..Len(qz)}

\* a successful deleteQuiz removes the quiz, its questions and their options
\* and nothing else
DeleteQuizFrame ==
    Succeeded("deleteQuiz") =>
       LET id == res'.id
           owned == {q \in DOMAIN questions : questions[q].quizId = id}
       IN /\ res'.status = OK
          /\ id \in quizIdsOf(quizzes)
          /\ id \notin quizIdsOf(quizzes')
          /\ DOMAIN questions' = DOMAIN questions \ owned
          /\ \A q \in owned : optionIdsOfQuestion(questions, q) \cap optionIdsOf(questions') = {}
          /\ \A q \in DOMAIN questions \ owned : questions'[q] = questions[q]
          /\ quizRows(quizzes') = {r \in quizRows(quizzes) : r.id # id}
          /\ Len(quizzes') = Len(quizzes) - 1

\* a successful deleteQuestion removes the question and its options and
\* nothing else
DeleteQuestionFrame ==
    Succeeded("deleteQuestion") =>
       LET id == res'.id
       IN /\ res'.status = OK
          /\ id \in DOMAIN questions
          /\ DOMAIN questions' = DOMAIN questions \ {id}
          /\ optionIdsOfQuestion(questions, id) \cap optionIdsOf(questions') = {}
          /\ \A q \in DOMAIN questions \ {id} : questions'[q] = questions[q]
          /\ quizzes' = quizzes

\* C12: after deleteQuiz succeeds the quiz and every question and option it
\* owned are gone, after deleteQuestion succeeds the question and its
\* options are gone, and every quiz, question and option the deleted entity
\* did not own is as it was.
C12_DeleteCascades == [][DeleteQuizFrame /\ DeleteQuestionFrame]_vars

\* a quiz has just been deleted and a question of another quiz is stored
C12_QuizDeletedOthersKept ==
    /\ res.op = "deleteQuiz"
    /\ res.envelope = "success"
    /\ res.id \notin quizIdsOf(quizzes)
    /\ Len(quizzes) = 1
    /\ Cardinality(DOMAIN questions) >= 1

(***************************************************************************)
(* Identifiers that do not resolve.                                        *)
(***************************************************************************)
QuizAddressed ==
    {"getQuizById", "updateQuiz", "deleteQuiz", "createQuestion", "getQuizQuestions",
     "getQuizQuestionsWithAnswers", "submitQuizAnswers"}
QuestionAddressed == {"getQuestionById", "updateQuestion", "deleteQuestion"}

\* the request answered by this step passed its route gates
PassedGates ==
    /\ isUuid(res'.id)
    /\ res'.op = "updateQuiz" => createQuizSchema(res'.body)
    /\ res'.op \in {"createQuestion", "updateQuestion"} => createQuestionSchema(res'.body)
    /\ res'.op = "submitQuizAnswers" => submitAnswersSchema(res'.body)

\* the identifier of the request answered by this step named no stored
\* quiz, or no stored question, when the request came
Unresolved ==
    \/ res'.op \in QuizAddressed /\ res'.id \notin quizIdsOf(quizzes)
    \/ res'.op \in QuestionAddressed /\ res'.id \notin DOMAIN questions

NotFoundStep ==
    /\ (res.op = "none" /\ res'.op # "none" /\ PassedGates /\ Unresolved) =>
          /\ res'.status = NOT_FOUND
          /\ res'.envelope = "error"
          /\ res'.data = <<>>
          /\ quizzes' = quizzes
          /\ questions' = questions
    /\ Succeeded("deleteQuiz") => res'.id \notin quizIdsOf(quizzes')
    /\ Succeeded("deleteQuestion") => res'.id \notin DOMAIN questions'
    /\ res'.op # "none" /\ res'.status = NOT_FOUND => Unresolved

\* C18: a request that passes its gates and whose quiz or question
\* identifier does not resolve (get, update, delete quiz; create question,
\* learner view, admin view, submit; get, update, delete question) is
\* answered 404 and leaves the store as it was, and 404 is answered to
\* nothing else; the identifier of a deleted quiz or question no longer
\* resolves, so a get after a successful delete of the same id is one of
\* these requests.
C18_UnresolvedIdIsNotFound == [][NotFoundStep]_vars

\* a submission to a quiz identifier that names no quiz was answered 404
\* while another quiz and a question are stored
C18_SubmitToMissingQuiz ==
    /\ res.op = "submitQuizAnswers"
    /\ res.status = NOT_FOUND
    /\ res.message = "Quiz not found"
    /\ res.id \notin quizIdsOf(quizzes)
    /\ Len(quizzes) = 1
    /\ DOMAIN questions # {}

(***************************************************************************)
(* The two views of a quiz's questions.                                    *)
(***************************************************************************)
ViewSent ==
    /\ res.op \in {"getQuizQuestions", "getQuizQuestionsWithAnswers"}
    /\ res.envelope = "success"

AdminViewSent == res.op = "getQuizQuestionsWithAnswers" /\ res.envelope = "success"

\* the view lists exactly the quiz's stored questions, each once, in
\* ascending order of identifier, with their stored text, type and options
ViewIsTheStoredQuestionsAscending ==
    LET d == res.data
        owned == {q \in DOMAIN questions : questions[q].quizId = res.id}
    IN /\ Len(d) = Cardinality(owned)
       /\ {d[i].id : i \in 1..Len(d)} = owned
       /\ \A i \in 1..Len(d) : \A j \in 1..Len(d) : i < j => d[i].id < d[j].id
       /\ \A i \in 1..Len(d) :
             LET q == questions[d[i].id]
             IN /\ d[i].text = q.text
                /\ d[i].type = q.type
                /\ Len(d[i].options) = Len(q.options)
                /\ {<<d[i].options[j].id, d[i].options[j].text>> : j \in 1..Len(d[i].options)}
                      = {<<q.options[j].id, q.options[j].text>> : j \in 1..Len(q.options)}

\* C19: the learner view and the admin view of a quiz are both the quiz's
\* stored questions in ascending order of question identifier, hence the
\* same questions in the same order, and the same again on a second fetch
\* of an unchanged store; every option of the admin view carries isCorrect,
\* with the stored flag.
C19_ViewsAscendingAndEqual ==
    /\ ViewSent => ViewIsTheStoredQuestionsAscending
    /\ AdminViewSent =>
          \A i \in 1..Len(res.data) : \A j \in 1..Len(res.data[i].options) :
             /\ "isCorrect" \in DOMAIN res.data[i].options[j]
             /\ \E k \in 1..Len(questions[res.data[i].id].options) :
                   LET o == questions[res.data[i].id].options[k]
                   IN /\ o.id = res.data[i].options[j].id
                      /\ o.isCorrect = res.data[i].options[j].isCorrect

\* the admin view of a quiz that owns questions 1 and 2, a flagged option
\* among them
C19_AdminViewOfTwoQuestions ==
    /\ AdminViewSent
    /\ Len(res.data) = 2
    /\ res.data[1].id = 1
    /\ res.data[2].id = 2
    /\ \E j \in 1..Len(res.data[2].options) : res.data[2].options[j].isCorrect

(***************************************************************************)
(* The frame of updateQuestion.                                            *)
(***************************************************************************)
optionContents(options) == {<<options[j].text, options[j].isCorrect>> : j \in 1..Len(options)}

UpdateQuestionFrame ==
    Succeeded("updateQuestion") =>
       LET id == res'.id
           data == res'.body
       IN /\ id \in DOMAIN questions
          /\ DOMAIN questions' = DOMAIN questions
          /\ questions'[id].quizId = questions[id].quizId
          /\ questions'[id].text = data.text
          /\ questions'[id].type = data.type
          /\ Len(questions'[id].options) = Len(data.options)
          /\ optionContents(questions'[id].options) = optionContents(data.options)
          /\ optionIdsOfQuestion(questions', id) \cap optionIdsOfQuestion(questions, id) = {}
          /\ Cardinality(optionIdsOfQuestion(questions', id)) = Len(data.options)
          /\ \A q \in DOMAIN questions \ {id} : questions'[q] = questions[q]
          /\ quizzes' = quizzes

\* C20: after a successful updateQuestion the question's options are
\* exactly those of the request, none of its previous options remains, the
\* question keeps its identifier and its quiz and takes the request's text
\* and type, and every other question, with its options, and every quiz is
\* as it was.
C20_UpdateReplacesOptions == [][UpdateQuestionFrame]_vars

\* a question was updated to a TEXT question while another question is
\* stored beside it
C20_UpdatedBesideAnother ==
    /\ res.op = "updateQuestion"
    /\ res.envelope = "success"
    /\ Cardinality(DOMAIN questions) = 2
    /\ questions[res.id].type = "TEXT"
    /\ optionContents(questions[res.id].options) = optionContents(res.body.options)

(***************************************************************************)
(* The validation gates.                                                   *)
(***************************************************************************)
\* the request answered by this step has a path parameter that is no uuid,
\* an empty or overlong title, a question body or a submission its schema
\* rejects
FailsValidation ==
    \/ res'.op \in QuizAddressed \cup QuestionAddressed /\ res'.id = BadId
    \/ /\ res'.op \in {"createQuiz", "updateQuiz"}
       /\ (Len(res'.body.title) = 0 \/ Len(res'.body.title) > TitleMaxLen)
    \/ res'.op \in {"createQuestion", "updateQuestion"} /\ ~createQuestionSchema(res'.body)
    \/ res'.op = "submitQuizAnswers" /\ ~submitAnswersSchema(res'.body)

ValidationMessages == {"Validation failed", "Parameter validation failed"}

GateStep ==
    (res.op = "none" /\ res'.op # "none") =>
       /\ FailsValidation =>
             /\ res'.status = BAD_REQUEST
             /\ res'.envelope = "error"
             /\ res'.message \in ValidationMessages
             /\ res'.data = <<>>
             /\ quizzes' = quizzes
             /\ questions' = questions
       /\ res'.message \in ValidationMessages => FailsValidation

\* C21: a request whose path parameter or body fails its schema is answered
\* 400 with the error envelope and the gate's message, carries no data and
\* leaves the store as it was; the gate answers no other request.
C21_InvalidRequestStopsAtGate == [][GateStep]_vars

\* an update of a stored question with a body the schema rejects has been
\* answered 400
C21_BadBodyForStoredQuestion ==
    /\ res.op = "updateQuestion"
    /\ res.id \in DOMAIN questions
    /\ ~createQuestionSchema(res.body)
    /\ res.status = BAD_REQUEST
    /\ res.message = "Validation failed"

(***************************************************************************)
(* Operations that only read.                                              *)
(***************************************************************************)
ReadingOperations ==
    {"getQuizzes", "getQuizById", "getQuizQuestions", "getQuizQuestionsWithAnswers",
     "getQuestionById", "submitQuizAnswers"}

\* the step answers a reading operation, with a success or with an error
ReadAnswered == res' # res /\ res'.op \in ReadingOperations

ReadOnlyStep == ReadAnswered => quizzes' = quizzes /\ questions' = questions

\* C26: submitQuizAnswers, the learner view, the admin view and the get
\* operations only read: whether the call succeeds or fails, the stored
\* quizzes, questions and options are after it exactly what they were before
\* it, so nothing of the answers or of the scoring result is stored.
C26_ReadsLeaveTheStoreAlone == [][ReadOnlyStep]_vars

\* a submission to a stored quiz was scored; the quiz and its questions are
\* in the store
C26_SubmissionScoredOverStoredQuiz ==
    /\ res.op = "submitQuizAnswers"
    /\ res.envelope = "success"
    /\ Len(res.data.results) >= 1
    /\ quizExists(res.id)
    /\ res.data.total = Cardinality({q \in DOMAIN questions : questions[q].quizId = res.id})
(***************************************************************************)
(* Claims about calls in flight at once (SpecConc).                        *)
(***************************************************************************)
Readers == Slots \ {Writer}

\* the questions a finished reading call has observed, options attached
observed(s) ==
    IF calls[s].pc = "done" /\ calls[s].op \in ReadOps THEN calls[s].rows ELSE <<>>

NoReaderSeesAnEmptiedQuestion ==
    /\ \A q \in DOMAIN questions : Len(questions[q].options) >= 1
    /\ \A s \in Readers : \A i \in 1..Len(observed(s)) :
          Len(observed(s)[i].options) = 0 => observed(s)[i].id \notin DOMAIN questions

FailedUpdateKeepsOptions ==
    \A s \in Slots :
       /\ calls[s].op = "updateQuestion" /\ calls[s].pc \in InTx =>
             fullQuestion(questions, calls[s].id) = calls[s].rows[1]
       /\ calls[s].pc \in InTx /\ calls'[s].pc = "done" /\ calls'[s].res.envelope = "error" =>
             fullQuestion(questions', calls[s].id) = calls[s].rows[1]

\* C11: updateQuestion replaces the option set atomically.  The stored
\* question always has at least one option, a learner view, admin view,
\* getQuestionById or submission running beside an update never observes a
\* question without options while the question is stored (the only reads
\* without options are of a question deleted meanwhile), and while the
\* transaction is open, and after it fails, the question and its options are
\* those updateQuestion found before it began.
C11_AtomicOptionReplacement ==
    []NoReaderSeesAnEmptiedQuestion /\ [][FailedUpdateKeepsOptions]_vars

\* a reader whose two statements straddled the commit of an update (the old
\* SINGLE_CHOICE row with the one new option), and a later update that failed
C11_ReadAcrossCommitAndFailedUpdate ==
    /\ calls[Writer].op = "updateQuestion"
    /\ calls[Writer].pc = "done"
    /\ calls[Writer].res.status = INTERNAL_SERVER_ERROR
    /\ \E s \in Readers : \E i \in 1..Len(observed(s)) :
          /\ observed(s)[i].id = 1
          /\ observed(s)[i].type = "SINGLE_CHOICE"
          /\ Len(observed(s)[i].options) = 1


\* the finished submissions
submitted(s) == calls[s].pc = "done" /\ calls[s].op = "submitQuizAnswers"

\* the quiz was found but the findMany returned no question
fetchedNothing(s) == submitted(s) /\ calls[s].rows = <<>> /\ calls[s].res.status # NOT_FOUND

\* C14: a submission whose quiz exists but whose findMany returns no
\* question is answered 400 'No questions found for this quiz' and carries
\* no score, and every score object returned has total >= 1, also when the
\* quiz or its questions are deleted while the submission is in flight.
C14_NoScoreOverNoQuestions ==
    \A s \in Readers :
       /\ fetchedNothing(s) =>
             /\ calls[s].res.status = BAD_REQUEST
             /\ calls[s].res.envelope = "error"
             /\ calls[s].res.message = "No questions found for this quiz"
             /\ calls[s].res.data = <<>>
       /\ submitted(s) /\ calls[s].res.envelope = "success" =>
             /\ calls[s].res.data.total >= 1
             /\ calls[s].res.data.total = Len(calls[s].rows)

\* the quiz was deleted after the submission had found it: the submission
\* fetched no question and was answered 400
C14_QuizDeletedUnderSubmission ==
    \E s \in Readers :
       /\ fetchedNothing(s)
       /\ calls[s].res.status = BAD_REQUEST
       /\ ~quizExists(calls[s].id)
       /\ calls[Writer].op = "deleteQuiz"
       /\ calls[Writer].pc = "done"

(***************************************************************************)
(* Store failures (SpecErr).                                               *)
(***************************************************************************)
Handled == Len(calls) = 1 /\ calls[1].pc = "done"

GenericMessages ==
    {"Internal server error", "Database error occurred", "Unknown database error occurred",
     "Something went wrong"}

\* C17: every persistence error raised by the data store (constraint
\* violation, foreign-key failure, connectivity, unknown request error) is
\* answered 500 with a generic message.
C17_StoreFailureIsServerError ==
    Handled =>
       /\ calls[1].res.status = INTERNAL_SERVER_ERROR
       /\ calls[1].res.envelope = "error"
       /\ calls[1].res.message \in GenericMessages

\* a foreign-key failure is answered 400 'Foreign key constraint failed'
C17_ForeignKeyFailureIsBadRequest ==
    /\ Handled
    /\ calls[1].err.code = "P2003"
    /\ calls[1].res.status = BAD_REQUEST
    /\ calls[1].res.message = "Foreign key constraint failed"

(***************************************************************************)
(* Submissions beside each other (SpecTwo).                                *)
(***************************************************************************)
answeredSubmission(s) == calls[s].pc = "done" /\ calls[s].rows # <<>>

storeError(err) ==
    err.name \in {"PrismaClientKnownRequestError", "PrismaClientUnknownRequestError",
                  "PrismaClientValidationError", "PrismaClientInitializationError",
                  "PrismaClientRustPanicError"}

\* neither a store error nor an error with a status code
unexpected(err) == ~storeError(err) /\ err.statusCode = 0

\* the default answer of the handler to err under env
defaultAnswer(env, err, r) ==
    /\ r.status = INTERNAL_SERVER_ERROR
    /\ r.envelope = "error"
    /\ IF env = "production"
       THEN r.message = "Internal server error" /\ r.message # err.message
       ELSE r.message = (IF err.message # "" THEN err.message ELSE "Something went wrong")

theRequest == calls[1]
RequestAnswered == theRequest.pc = "done"

AtMostOneResponse ==
    /\ Len(theRequest.sent) <= 1
    /\ RequestAnswered <=> Len(theRequest.sent) = 1
    /\ \A i \in 1..Len(theRequest.sent) :
          /\ theRequest.sent[i].envelope \in {"success", "error"}
          /\ theRequest.sent[i].envelope = "success" <=> theRequest.sent[i].status = OK

GateStepTaken == theRequest.pc \in {"validateParams", "validateBody"}
ControllerStepTaken == theRequest.pc = "controller"

\* how many middleware the request may still pass through
stagesLeft(pc) ==
    CASE pc = "validateParams" -> 4
      [] pc = "validateBody" -> 3
      [] pc = "controller" -> 2
      [] pc = "errorHandler" -> 1
      [] OTHER -> 0

PipeStep ==
    /\ stagesLeft(calls'[1].pc) < stagesLeft(theRequest.pc)
    /\ GateStepTaken =>
          \/ /\ calls'[1].pc \in {"validateBody", "controller"}
             /\ calls'[1].sent = <<>>
          \/ /\ calls'[1].pc = "done"
             /\ Len(calls'[1].sent) = 1
             /\ calls'[1].sent[1].status = BAD_REQUEST
             /\ calls'[1].sent[1].envelope = "error"
    /\ ControllerStepTaken =>
          \/ /\ calls'[1].pc = "done"
             /\ Len(calls'[1].sent) = 1
             /\ calls'[1].sent[1].envelope = "success"
             /\ calls'[1].err = NoError
          \/ /\ calls'[1].pc = "errorHandler"
             /\ calls'[1].sent = <<>>
             /\ calls'[1].err # NoError
    /\ theRequest.pc = "errorHandler" =>
          /\ calls'[1].pc = "done"
          /\ Len(calls'[1].sent) = 1
          /\ calls'[1].sent[1].envelope = "error"

\* C28: every request gets exactly one response.  At no point has more than
\* one sendSuccess or sendError been issued for it, and it has passed its
\* last middleware exactly when one has; every step takes it further down
\* its route: a gate either hands on without sending or sends a 400 and
\* ends the request, the controller answers a returned value with the
\* success envelope and status 200 and forwards a thrown error unanswered,
\* and the error handler sends the one error response.
C28_ExactlyOneResponse == []AtMostOneResponse /\ [][PipeStep]_vars

\* a submission named a question the quiz does not own: the service threw,
\* the controller sent nothing, the error handler sent the 400
C28_ThrownErrorAnsweredOnce ==
    /\ RequestAnswered
    /\ theRequest.op = "submitQuizAnswers"
    /\ theRequest.err = AppError("Question not found in this quiz", BAD_REQUEST)
    /\ theRequest.sent = <<errorHandler(theRequest.op, theRequest.id, theRequest.body,
                                        theRequest.err)>>
    /\ theRequest.sent[1].status = BAD_REQUEST

=============================================================================
